---- MODULE Spec2Model ----
(***************************************************************************)
(* Model of the two AI request handlers of the todo application            *)
(*   src/app/api/ai/generate-todo/route.ts   (POST /api/ai/generate-todo)  *)
(*   src/app/api/ai/analyze-todos/route.ts   (POST /api/ai/analyze-todos)  *)
(* and of the pure helpers they call: validateInput, preprocessInput,      *)
(* postprocessResult and the error classification by message substring.    *)
(*                                                                         *)
(* Strings are sequences of one-character strings.  The alphabet stands    *)
(* for the character classes the code's regular expressions tell apart:    *)
(*   " "            whitespace (\s)                                        *)
(*   "a".."z", "_", "0".."9"   word characters (\w)                       *)
(*   "K"            a Hangul syllable (the range 가-힣)                    *)
(*   "!", ".", "-", "/", ":"   characters that are none of the above       *)
(* JavaScript values are records [t, s, n]: t is the typeof tag, s the     *)
(* characters of a string, n the value of a number.                        *)
(*                                                                         *)
(* The browser side is the home page and its task form                     *)
(*   src/app/page.tsx, src/components/todo/TodoForm.tsx                    *)
(* A value that may be null or undefined is <<>> when absent and <<x>>     *)
(* when it is x.  Every asynchronous handler is cut at its awaits: one     *)
(* action per stretch of code that runs without yielding.                  *)
(***************************************************************************)
EXTENDS Integers, Sequences, FiniteSets, TLC

VARIABLES
    gPc,            \* generate-todo: position of the handler
    gBody,          \* generate-todo: the request body as received
    gApiKey,        \* generate-todo: process.env.GOOGLE_GENERATIVE_AI_API_KEY is set
    gIdx,           \* generate-todo: index into modelNames of the loop variable
    gInFlight,      \* generate-todo: number of generateObject calls not yet settled
    gCalls,         \* generate-todo: the outbound calls made, in order (model, outcome)
    gLastError,     \* generate-todo: let lastError
    gObject,        \* generate-todo: let object
    gResponse,      \* generate-todo: the response returned
    aPc,            \* analyze-todos: position of the handler
    aBody,          \* analyze-todos: the request body as received
    aApiKey,        \* analyze-todos: the API key is set
    aCalls,         \* analyze-todos: number of outbound calls made
    aError,         \* analyze-todos: the error caught by the handler's catch
    aResponse,      \* analyze-todos: the response returned
    aPrompt,        \* analyze-todos: the statistics rendered into the prompt
    nodeEnv,        \* process.env.NODE_ENV
    currentDate,    \* now.toISOString().split("T")[0]
    tzOffset,       \* the server's local time zone, hours east of UTC
    nPc,            \* normalizer harness: position
    nInput,         \* normalizer harness: the model output handed to postprocessResult
    nOnce,          \* normalizer harness: postprocessResult(nInput)
    nTwice,         \* normalizer harness: postprocessResult(nOnce)
    page,           \* browser: the React state of HomePage
    form,           \* browser: the state of the TodoForm the page renders
    storage,        \* the rows of the todos table
    sent,           \* browser: the requests issued so far, in order
    runs,           \* browser: the handler invocations started so far, in order
    now,            \* browser: the clock, in minutes since the epoch
    isMounted,      \* browser: let isMounted of the page's auth effect
    authCallback    \* auth callback route: position, request and response

vars == <<gPc, gBody, gApiKey, gIdx, gInFlight, gCalls, gLastError, gObject, gResponse,
          aPc, aBody, aApiKey, aCalls, aError, aResponse, aPrompt,
          nodeEnv, currentDate, tzOffset, nPc, nInput, nOnce, nTwice,
          page, form, storage, sent, runs, now, isMounted, authCallback>>

gVars == <<gPc, gBody, gApiKey, gIdx, gInFlight, gCalls, gLastError, gObject, gResponse>>
aVars == <<aPc, aBody, aApiKey, aCalls, aError, aResponse, aPrompt>>
nVars == <<nPc, nInput, nOnce, nTwice>>
envVars == <<nodeEnv, currentDate, tzOffset>>
cVars == <<page, form, storage, sent, runs, now, isMounted>>

----------------------------------------------------------------------------
(* Strings *)

Rep(c, n) == [i \in 1..n |-> c]

IsSpace(c) == c = " "

Digits == {"0", "1", "2", "3", "4", "5", "6", "7", "8", "9"}

IsDigit(c) == c \in Digits

Letters == {"a", "b", "c", "d", "e", "f", "g", "h", "i", "j", "k", "l", "m",
            "n", "o", "p", "q", "r", "s", "t", "u", "v", "w", "x", "y", "z"}

IsWord(c) == c \in Letters \/ c = "_" \/ IsDigit(c)

IsHangul(c) == c = "K"

\* String.prototype.trim
RECURSIVE TrimStart(_)
TrimStart(s) ==
    IF s = <<>> THEN <<>>
    ELSE IF IsSpace(Head(s)) THEN TrimStart(Tail(s)) ELSE s

RECURSIVE TrimEnd(_)
TrimEnd(s) ==
    IF s = <<>> THEN <<>>
    ELSE IF IsSpace(s[Len(s)]) THEN TrimEnd(SubSeq(s, 1, Len(s) - 1)) ELSE s

Trim(s) == TrimEnd(TrimStart(s))

\* String.prototype.substring(0, n)
Substring0(s, n) == SubSeq(s, 1, IF n < Len(s) THEN n ELSE Len(s))

\* processed.replace(/\s+/g, " "): every run of whitespace becomes one space.
\* The two halves are collapsed and joined, a run that spans the cut once.
RECURSIVE CollapseSpaces(_)
CollapseSpaces(s) ==
    IF Len(s) = 0 THEN <<>>
    ELSE IF Len(s) = 1 THEN (IF IsSpace(s[1]) THEN <<" ">> ELSE s)
    ELSE LET half == Len(s) \div 2
             left == CollapseSpaces(SubSeq(s, 1, half))
             right == CollapseSpaces(SubSeq(s, half + 1, Len(s)))
         IN IF IsSpace(left[Len(left)]) /\ IsSpace(right[1])
            THEN left \o Tail(right)
            ELSE left \o right

\* (text.match(/[^\w\s가-힣]/g) || []).length
SpecialCharCount(s) ==
    Cardinality({i \in 1..Len(s) : ~IsWord(s[i]) /\ ~IsSpace(s[i]) /\ ~IsHangul(s[i])})

----------------------------------------------------------------------------
(* JavaScript values *)

JsUndefined == [t |-> "undefined", s |-> <<>>, n |-> 0]
JsNull == [t |-> "null", s |-> <<>>, n |-> 0]
JsString(s) == [t |-> "string", s |-> s, n |-> 0]
JsNumber(n) == [t |-> "number", s |-> <<>>, n |-> n]

\* ToBoolean: what `!x` and `x &&` test
Truthy(v) ==
    CASE v.t = "undefined" -> FALSE
      [] v.t = "null" -> FALSE
      [] v.t = "string" -> v.s # <<>>
      [] v.t = "number" -> v.n # 0
      [] OTHER -> TRUE

IsString(v) == v.t = "string"

\* a value that may be absent
None == <<>>
Some(x) == <<x>>

----------------------------------------------------------------------------
(* generate-todo: validateInput and preprocessInput *)

MinTextLength == 2
MaxTextLength == 500

\* validateInput with the maximum length tested on the trimmed text
validateInputTrimmedMax(text) ==
    IF text = <<>> \/ Len(Trim(text)) = 0 THEN "empty"
    ELSE IF Len(Trim(text)) < MinTextLength THEN "short"
    ELSE IF Len(Trim(text)) > MaxTextLength THEN "long"
    ELSE IF 2 * SpecialCharCount(text) > Len(text) THEN "noisy"
    ELSE "ok"

\* specialCharCount >= text.length * 0.5, as the comment above the test words it
validateInputHalfOrMore(text) ==
    IF text = <<>> \/ Len(Trim(text)) = 0 THEN "empty"
    ELSE IF Len(Trim(text)) < MinTextLength THEN "short"
    ELSE IF Len(text) > MaxTextLength THEN "long"
    ELSE IF 2 * SpecialCharCount(text) >= Len(text) THEN "noisy"
    ELSE "ok"

\* validateInput(text): "ok" when isValid, else which check refused the text
validateInput(text) ==
    IF text = <<>> \/ Len(Trim(text)) = 0 THEN "empty"
    ELSE IF Len(Trim(text)) < MinTextLength THEN "short"
    ELSE IF Len(text) > MaxTextLength THEN "long"
    ELSE IF 2 * SpecialCharCount(text) > Len(text) THEN "noisy"
    ELSE "ok"

preprocessInput(text) == CollapseSpaces(Trim(text))

----------------------------------------------------------------------------
(* Dates: new Date(string), setHours(0, 0, 0, 0) and the comparison of two Dates. *)
(* A Date is [valid, t], t in minutes since the epoch (UTC).                      *)

DigitVal(c) ==
    CASE c = "0" -> 0 [] c = "1" -> 1 [] c = "2" -> 2 [] c = "3" -> 3 [] c = "4" -> 4
      [] c = "5" -> 5 [] c = "6" -> 6 [] c = "7" -> 7 [] c = "8" -> 8 [] c = "9" -> 9

RECURSIVE NumVal(_)
NumVal(s) == IF s = <<>> THEN 0 ELSE 10 * NumVal(SubSeq(s, 1, Len(s) - 1)) + DigitVal(s[Len(s)])

AllDigits(s, from, to) == \A i \in from..to : IsDigit(s[i])

\* /^\d{4}-\d{2}-\d{2}$/.test(s)
MatchesDateRegex(s) ==
    /\ Len(s) = 10
    /\ AllDigits(s, 1, 4) /\ s[5] = "-" /\ AllDigits(s, 6, 7) /\ s[8] = "-" /\ AllDigits(s, 9, 10)

\* the legacy form YYYY/MM/DD, which the engine parses as a local date
MatchesSlashDate(s) ==
    /\ Len(s) = 10
    /\ AllDigits(s, 1, 4) /\ s[5] = "/" /\ AllDigits(s, 6, 7) /\ s[8] = "/" /\ AllDigits(s, 9, 10)

\* the ISO date-time form YYYY-MM-DDTHH:mmZ, a UTC instant
MatchesIsoDateTime(s) ==
    /\ Len(s) = 17
    /\ MatchesDateRegex(SubSeq(s, 1, 10))
    /\ s[11] = "T" /\ AllDigits(s, 12, 13) /\ s[14] = ":" /\ AllDigits(s, 15, 16) /\ s[17] = "Z"

\* the form YYYY-MM-DDTHH:mm without a zone, a local date and time
MatchesLocalDateTime(s) ==
    /\ Len(s) = 16
    /\ MatchesDateRegex(SubSeq(s, 1, 10))
    /\ s[11] = "T" /\ AllDigits(s, 12, 13) /\ s[14] = ":" /\ AllDigits(s, 15, 16)

\* /^([0-1][0-9]|2[0-3]):[0-5][0-9]$/.test(s)
MatchesTimeRegex(s) ==
    /\ Len(s) = 5
    /\ \/ s[1] \in {"0", "1"} /\ IsDigit(s[2])
       \/ s[1] = "2" /\ s[2] \in {"0", "1", "2", "3"}
    /\ s[3] = ":"
    /\ s[4] \in {"0", "1", "2", "3", "4", "5"}
    /\ IsDigit(s[5])

\* days from 1970-01-01 to the first of month m of year y, plus d - 1
DayNumber(y, m, d) ==
    LET yy == IF m <= 2 THEN y - 1 ELSE y
        era == yy \div 400
        yoe == yy - era * 400
        mp == (m + 9) % 12
        doy == (153 * mp + 2) \div 5
        doe == yoe * 365 + yoe \div 4 - yoe \div 100 + doy
    IN era * 146097 + doe - 719468 + d - 1

InvalidDate == [valid |-> FALSE, t |-> 0]

\* new Date(s): a date-only ISO string is UTC midnight, an ISO date-time ending
\* in Z is that UTC instant (kept to the minute), a date-time without a zone
\* is that local time, the legacy form is local midnight, anything else the
\* model feeds it is an Invalid Date
NewDate(s, tz) ==
    IF MatchesIsoDateTime(s) \/ MatchesLocalDateTime(s)
    THEN LET date == SubSeq(s, 1, 10)
             y == NumVal(SubSeq(date, 1, 4))
             m == NumVal(SubSeq(date, 6, 7))
             d == NumVal(SubSeq(date, 9, 10))
             hh == NumVal(SubSeq(s, 12, 13))
             mm == NumVal(SubSeq(s, 15, 16))
         IN IF m < 1 \/ m > 12 \/ d < 1 \/ d > 31 \/ mm > 59 \/ hh > 24 \/ (hh = 24 /\ mm > 0)
            THEN InvalidDate
            ELSE [valid |-> TRUE,
                  t |-> 60 * (24 * DayNumber(y, m, d) + hh) + mm
                        - (IF MatchesLocalDateTime(s) THEN 60 * tz ELSE 0)]
    ELSE IF MatchesDateRegex(s) \/ MatchesSlashDate(s)
    THEN LET y == NumVal(SubSeq(s, 1, 4))
             m == NumVal(SubSeq(s, 6, 7))
             d == NumVal(SubSeq(s, 9, 10))
         IN IF m < 1 \/ m > 12 \/ d < 1 \/ d > 31 THEN InvalidDate
            ELSE [valid |-> TRUE,
                  t |-> 1440 * DayNumber(y, m, d) - (IF MatchesSlashDate(s) THEN 60 * tz ELSE 0)]
    ELSE InvalidDate

\* date.setHours(0, 0, 0, 0): midnight of the date's local day
SetHoursZero(date, tz) ==
    IF ~date.valid THEN date
    ELSE [valid |-> TRUE, t |-> ((date.t + 60 * tz) \div 1440) * 1440 - 60 * tz]

\* a < b on two Dates (false when either is NaN)
DateLess(a, b) == a.valid /\ b.valid /\ a.t < b.t

\* date.getDay() in local time: 0 for Sunday (1970-01-01 was a Thursday)
GetDay(date, tz) == (((date.t + 60 * tz) \div 1440) + 4) % 7

DigitChar(n) == CHOOSE c \in Digits : DigitVal(c) = n

RECURSIVE Pow10(_)
Pow10(k) == IF k = 0 THEN 1 ELSE 10 * Pow10(k - 1)

\* the decimal digits of n, zero-padded to width w
Padded(n, w) == [i \in 1..w |-> DigitChar((n \div Pow10(w - i)) % 10)]

\* now.toISOString().split("T")[0]
FormatISO(y, m, d) == Padded(y, 4) \o <<"-">> \o Padded(m, 2) \o <<"-">> \o Padded(d, 2)

FormatSlash(y, m, d) == Padded(y, 4) \o <<"/">> \o Padded(m, 2) \o <<"/">> \o Padded(d, 2)

FormatTime(h, m) == Padded(h, 2) \o <<":">> \o Padded(m, 2)

FormatIsoDateTime(y, m, d, hh, mm) ==
    FormatISO(y, m, d) \o <<"T">> \o FormatTime(hh, mm) \o <<"Z">>

\* the year, month and day of the day that is z days after 1970-01-01
CivilFromDays(z) ==
    LET zz == z + 719468
        era == zz \div 146097
        doe == zz - era * 146097
        yoe == (doe - doe \div 1460 + doe \div 36524 - doe \div 146096) \div 365
        doy == doe - (365 * yoe + yoe \div 4 - yoe \div 100)
        mp == (5 * doy + 2) \div 153
        d == doy - (153 * mp + 2) \div 5 + 1
        m == IF mp < 10 THEN mp + 3 ELSE mp - 9
        y == yoe + era * 400 + (IF m <= 2 THEN 1 ELSE 0)
    IN <<y, m, d>>

\* date.toISOString(), kept to the minute: YYYY-MM-DDTHH:mmZ
ToISOString(date) ==
    LET c == CivilFromDays(date.t \div 1440)
    IN FormatIsoDateTime(c[1], c[2], c[3], (date.t % 1440) \div 60, date.t % 60)

\* format(date, "yyyy-MM-dd'T'HH:mm") of date-fns: the local date and time
FormatLocalDateTime(date, tz) ==
    LET local == date.t + 60 * tz
        c == CivilFromDays(local \div 1440)
    IN FormatISO(c[1], c[2], c[3]) \o <<"T">> \o FormatTime((local % 1440) \div 60, local % 60)

\* parseISO(s) of date-fns for a date-only string: local midnight of that day,
\* an Invalid Date when the string is not a day of the calendar
ParseISO(s, tz) ==
    IF ~MatchesDateRegex(s) THEN InvalidDate
    ELSE LET y == NumVal(SubSeq(s, 1, 4))
             m == NumVal(SubSeq(s, 6, 7))
             d == NumVal(SubSeq(s, 9, 10))
             leap == (y % 4 = 0 /\ y % 100 # 0) \/ y % 400 = 0
             last == IF m = 2 THEN (IF leap THEN 29 ELSE 28)
                     ELSE IF m \in {4, 6, 9, 11} THEN 30 ELSE 31
         IN IF m < 1 \/ m > 12 \/ d < 1 \/ d > last THEN InvalidDate
            ELSE [valid |-> TRUE, t |-> 1440 * DayNumber(y, m, d) - 60 * tz]

\* date.setHours(h, m, 0, 0) for h and m in range
SetHours(date, h, m, tz) ==
    IF ~date.valid THEN date
    ELSE [valid |-> TRUE, t |-> SetHoursZero(date, tz).t + 60 * h + m]

----------------------------------------------------------------------------
(* generate-todo: postprocessResult *)

MaxTitleLength == 100
TitleKeep == 97

Placeholder == <<"K", " ", "K">>
Ellipsis == <<".", ".", ".">>
High == <<"h", "i", "g", "h">>
Medium == <<"m", "e", "d", "i", "u", "m">>
Low == <<"l", "o", "w">>

\* the title cut at the maximum length, the ellipsis added after it
PostTitleCutAtMax(title) ==
    IF ~Truthy(title) \/ ~IsString(title) THEN JsString(Placeholder)
    ELSE LET trimmed == Trim(title.s)
             cut == IF Len(trimmed) > MaxTitleLength
                    THEN Substring0(trimmed, MaxTitleLength) \o Ellipsis
                    ELSE trimmed
         IN IF Len(cut) < 1 THEN JsString(Placeholder) ELSE JsString(cut)

\* lines 62-77
PostTitle(title) ==
    IF ~Truthy(title) \/ ~IsString(title) THEN JsString(Placeholder)
    ELSE LET trimmed == Trim(title.s)
             cut == IF Len(trimmed) > MaxTitleLength
                    THEN Substring0(trimmed, TitleKeep) \o Ellipsis
                    ELSE trimmed
         IN IF Len(cut) < 1 THEN JsString(Placeholder) ELSE JsString(cut)

\* the optional text with the emptiness test made before the trim
PostOptionalTextCheckBeforeTrim(v) ==
    IF Truthy(v) /\ IsString(v)
    THEN IF Len(v.s) = 0 THEN JsNull ELSE JsString(Trim(v.s))
    ELSE JsNull

\* lines 80-87 (description) and 134-141 (category)
PostOptionalText(v) ==
    IF Truthy(v) /\ IsString(v)
    THEN IF Len(Trim(v.s)) = 0 THEN JsNull ELSE JsString(Trim(v.s))
    ELSE JsNull

\* the due date without the test for a past date
PostDueDateKeepPast(v, curDate, tz) ==
    IF Truthy(v) /\ IsString(v)
    THEN IF ~MatchesDateRegex(v.s) THEN JsNull ELSE v
    ELSE JsNull

\* lines 90-115
PostDueDate(v, curDate, tz) ==
    IF Truthy(v) /\ IsString(v)
    THEN LET dueDate == SetHoursZero(NewDate(v.s, tz), tz)
             today == SetHoursZero(NewDate(curDate, tz), tz)
         IN IF DateLess(dueDate, today) THEN JsString(curDate)
            ELSE IF ~MatchesDateRegex(v.s) THEN JsNull
            ELSE v
    ELSE JsNull

\* /^([0-1][0-9]|2[0-4]):[0-5][0-9]$/.test(s): the hour 24 let through
MatchesTimeRegexHour24(s) ==
    /\ Len(s) = 5
    /\ \/ s[1] \in {"0", "1"} /\ IsDigit(s[2])
       \/ s[1] = "2" /\ s[2] \in {"0", "1", "2", "3", "4"}
    /\ s[3] = ":"
    /\ s[4] \in {"0", "1", "2", "3", "4", "5"}
    /\ IsDigit(s[5])

PostDueTimeHour24(v) ==
    IF Truthy(v) /\ IsString(v)
    THEN IF ~MatchesTimeRegexHour24(v.s) THEN JsNull ELSE v
    ELSE JsNull

\* lines 118-126
PostDueTime(v) ==
    IF Truthy(v) /\ IsString(v)
    THEN IF ~MatchesTimeRegex(v.s) THEN JsNull ELSE v
    ELSE JsNull

\* lines 129-131
PostPriority(v) ==
    IF ~Truthy(v) \/ ~(IsString(v) /\ v.s \in {High, Medium, Low})
    THEN JsString(Medium)
    ELSE v

postprocessResult(data, curDate, tz) ==
    [title |-> PostTitle(data.title),
     description |-> PostOptionalText(data.description),
     due_date |-> PostDueDate(data.due_date, curDate, tz),
     due_time |-> PostDueTime(data.due_time),
     priority |-> PostPriority(data.priority),
     category |-> PostOptionalText(data.category)]

----------------------------------------------------------------------------
(* Upstream errors.  The handlers only look at error.message, and only at     *)
(* which of a fixed list of substrings it contains, so a message is modelled  *)
(* as the set of those substrings that occur in it.                           *)

Fragments == {"quota", "rate limit", "429", "resource exhausted",
              "api key", "api_key", "authentication",
              "model", "not found", "404",
              "network", "timeout", "fetch"}

\* errorMessage.includes(pattern), errorMessage the lower-cased message
Includes(msg, pattern) == pattern \in msg

NoError == <<>>

\* lastError?.message?.toLowerCase() || ""
MessageOf(err) == IF err = NoError THEN {} ELSE err[1]

\* generate-todo, lines 331-334
IsQuotaMessage(msg) ==
    \/ Includes(msg, "quota") \/ Includes(msg, "rate limit")
    \/ Includes(msg, "429") \/ Includes(msg, "resource exhausted")

\* generate-todo, line 342
IsAuthMessage(msg) ==
    Includes(msg, "api key") \/ Includes(msg, "api_key") \/ Includes(msg, "authentication")

\* generate-todo, lines 350-354.  The patterns "invalid model" and "model not
\* found" of lines 352-353 occur only in messages in which "model" occurs, so
\* their two disjuncts add nothing to the first one.
IsModelMessage(msg) ==
    Includes(msg, "model") \/ Includes(msg, "not found") \/ Includes(msg, "404")

\* generate-todo, line 371
IsNetworkMessage(msg) ==
    Includes(msg, "network") \/ Includes(msg, "timeout") \/ Includes(msg, "fetch")

\* the classification with the authentication test ahead of the quota test
ClassifyExhaustedAuthFirst(msg) ==
    IF IsAuthMessage(msg) THEN "auth"
    ELSE IF IsQuotaMessage(msg) THEN "quota"
    ELSE IF IsModelMessage(msg) THEN "model"
    ELSE IF IsNetworkMessage(msg) THEN "network"
    ELSE "unknown"

\* generate-todo, lines 327-386: the class of the last error after every model failed
ClassifyExhausted(msg) ==
    IF IsQuotaMessage(msg) THEN "quota"
    ELSE IF IsAuthMessage(msg) THEN "auth"
    ELSE IF IsModelMessage(msg) THEN "model"
    ELSE IF IsNetworkMessage(msg) THEN "network"
    ELSE "unknown"

\* generate-todo, lines 407-451: the class of an error caught by the outer catch
ClassifyOuterCatch(msg) ==
    IF IsAuthMessage(msg) THEN "auth"
    ELSE IF IsQuotaMessage(msg) THEN "quota"
    ELSE IF Includes(msg, "model") \/ Includes(msg, "not found") THEN "model"
    ELSE IF IsNetworkMessage(msg) THEN "network"
    ELSE "unknown"

\* analyze-todos, lines 318-357: the class of an error caught by the handler's catch
ClassifyAnalyze(msg) ==
    IF Includes(msg, "api key") \/ Includes(msg, "api_key") \/ Includes(msg, "authentication")
    THEN "auth"
    ELSE IF \/ Includes(msg, "quota") \/ Includes(msg, "rate limit")
            \/ Includes(msg, "429") \/ Includes(msg, "resource exhausted")
    THEN "quota"
    ELSE IF Includes(msg, "model") \/ Includes(msg, "not found") THEN "model"
    ELSE IF Includes(msg, "network") \/ Includes(msg, "timeout") \/ Includes(msg, "fetch")
    THEN "network"
    ELSE "unknown"

----------------------------------------------------------------------------
(* Responses: [status, error, details, data].  error names the message the    *)
(* body carries ("" when the body has no error field); details is <<>> when   *)
(* the field is undefined, else <<message>>; data is <<>> or <<draft>>.       *)

NoResponse == [status |-> 0, error |-> "", details |-> <<>>, data |-> <<>>]

ErrorResponse(status, error) ==
    [status |-> status, error |-> error, details |-> <<>>, data |-> <<>>]

\* details: message, whatever NODE_ENV is
DetailedErrorResponseAlways(status, error, env, msg) ==
    [status |-> status, error |-> error, details |-> <<msg>>, data |-> <<>>]

\* details: process.env.NODE_ENV === "development" ? message : undefined
DetailedErrorResponse(status, error, env, msg) ==
    [status |-> status, error |-> error,
     details |-> IF env = "development" THEN <<msg>> ELSE <<>>,
     data |-> <<>>]

DataResponse(data) == [status |-> 200, error |-> "", details |-> <<>>, data |-> <<data>>]

\* generate-todo, lines 318-386
ExhaustedResponse(err, env) ==
    LET msg == MessageOf(err)
        class == ClassifyExhausted(msg)
    IN CASE class = "quota" -> ErrorResponse(429, "quota")
         [] class = "auth" -> ErrorResponse(500, "auth")
         [] class = "model" -> DetailedErrorResponse(500, "model", env, msg)
         [] class = "network" -> ErrorResponse(500, "network")
         [] OTHER -> DetailedErrorResponse(500, "generate failed", env, msg)

\* generate-todo, lines 398-452
OuterCatchResponse(err, env) ==
    LET msg == MessageOf(err)
        class == ClassifyOuterCatch(msg)
    IN CASE class = "auth" -> ErrorResponse(500, "auth")
         [] class = "quota" -> ErrorResponse(429, "quota")
         [] class = "model" -> ErrorResponse(500, "model")
         [] class = "network" -> ErrorResponse(500, "network")
         [] OTHER -> DetailedErrorResponse(500, "generate error", env, msg)

\* analyze-todos, lines 309-358
AnalyzeCatchResponse(err, env) ==
    LET msg == MessageOf(err)
        class == ClassifyAnalyze(msg)
    IN CASE class = "auth" -> ErrorResponse(500, "auth")
         [] class = "quota" -> ErrorResponse(429, "quota")
         [] class = "model" -> ErrorResponse(500, "model")
         [] class = "network" -> ErrorResponse(500, "network")
         [] OTHER -> DetailedErrorResponse(500, "analyze error", env, msg)

----------------------------------------------------------------------------
(* POST /api/ai/generate-todo *)

modelNames == <<"gemini-2.5-flash", "gemini-1.5-flash">>

\* A request body: kind is "malformed" (request.json() throws), "null",
\* "primitive" (a JSON number, string or boolean), "array" or "object";
\* text is the value of body.text when the body is an object.
GenBody(kind, text) == [kind |-> kind, text |-> text]

\* const { text } = body
TextOf(body) == IF body.kind = "object" THEN body.text ELSE JsUndefined

\* the TypeError of destructuring null: "Cannot destructure property 'text' of
\* 'body' as it is null." contains none of the substrings the handlers look for
DestructureError == <<{}>>

\* one generateObject call: the model asked and the input text its prompt quotes
Call(model, text) ==
    [model |-> model, text |-> text, outcome |-> "pending", error |-> NoError, object |-> <<>>]

Settle(calls, outcome, err, obj) ==
    [calls EXCEPT ![Len(calls)] =
        [model |-> calls[Len(calls)].model, text |-> calls[Len(calls)].text,
         outcome |-> outcome, error |-> err, object |-> obj]]

\* lines 147-203: parse, validate, check the API key
GenReceive ==
    /\ gPc = "start"
    /\ IF gBody.kind = "malformed"
       THEN /\ gResponse' = ErrorResponse(400, "bad json")
            /\ gPc' = "done"
       ELSE IF gBody.kind = "null"
       THEN /\ gResponse' = OuterCatchResponse(DestructureError, nodeEnv)
            /\ gPc' = "done"
       ELSE IF ~IsString(TextOf(gBody))
       THEN /\ gResponse' = ErrorResponse(400, "not a string")
            /\ gPc' = "done"
       ELSE IF validateInput(TextOf(gBody).s) # "ok"
       THEN /\ gResponse' = ErrorResponse(400, validateInput(TextOf(gBody).s))
            /\ gPc' = "done"
       ELSE IF ~gApiKey
       THEN /\ gResponse' = ErrorResponse(500, "no api key")
            /\ gPc' = "done"
       ELSE /\ gResponse' = gResponse
            /\ gPc' = "loop"
    /\ UNCHANGED <<gBody, gApiKey, gIdx, gInFlight, gCalls, gLastError, gObject>>
    /\ UNCHANGED <<aVars, nVars, envVars, authCallback, cVars>>

\* a handler that asks every remaining model at once
GenIssueCallFanOut ==
    /\ gPc = "loop"
    /\ gIdx <= Len(modelNames)
    /\ gCalls' = gCalls \o [k \in 1..(Len(modelNames) - gIdx + 1) |->
                               Call(modelNames[gIdx + k - 1], preprocessInput(TextOf(gBody).s))]
    /\ gInFlight' = gInFlight + (Len(modelNames) - gIdx + 1)
    /\ gPc' = "await"
    /\ UNCHANGED <<gBody, gApiKey, gIdx, gLastError, gObject, gResponse>>
    /\ UNCHANGED <<aVars, nVars, envVars, authCallback, cVars>>

\* lines 215-218: the loop body starts generateObject with modelNames[gIdx]
GenIssueCall ==
    /\ gPc = "loop"
    /\ gIdx <= Len(modelNames)
    /\ gCalls' = Append(gCalls, Call(modelNames[gIdx], preprocessInput(TextOf(gBody).s)))
    /\ gInFlight' = gInFlight + 1
    /\ gPc' = "await"
    /\ UNCHANGED <<gBody, gApiKey, gIdx, gLastError, gObject, gResponse>>
    /\ UNCHANGED <<aVars, nVars, envVars, authCallback, cVars>>

\* lines 303-305 and 388-397: the call resolves; break, postprocess, respond
GenCallSucceeds(objects) ==
    /\ gPc = "await"
    /\ \E obj \in objects :
          /\ gObject' = <<obj>>
          /\ gCalls' = Settle(gCalls, "ok", NoError, <<obj>>)
          /\ gResponse' = DataResponse(postprocessResult(obj, currentDate, tzOffset))
    /\ gInFlight' = gInFlight - 1
    /\ gPc' = "done"
    /\ UNCHANGED <<gBody, gApiKey, gIdx, gLastError>>
    /\ UNCHANGED <<aVars, nVars, envVars, authCallback, cVars>>

\* the catch leaving the loop at the first failure instead of continuing
GenCallFailsNoFallback(messages) ==
    /\ gPc = "await"
    /\ \E msg \in messages :
          /\ gLastError' = <<msg>>
          /\ gCalls' = Settle(gCalls, "error", <<msg>>, <<>>)
          /\ gResponse' = ExhaustedResponse(<<msg>>, nodeEnv)
    /\ gIdx' = gIdx
    /\ gPc' = "done"
    /\ gInFlight' = gInFlight - 1
    /\ UNCHANGED <<gBody, gApiKey, gObject>>
    /\ UNCHANGED <<aVars, nVars, envVars, authCallback, cVars>>

\* lines 306-315: the call rejects; lastError = modelError; continue.
\* After the last model, lines 318-386 answer from lastError.
GenCallFails(messages) ==
    /\ gPc = "await"
    /\ \E msg \in messages :
          /\ gLastError' = <<msg>>
          /\ gCalls' = Settle(gCalls, "error", <<msg>>, <<>>)
          /\ IF gIdx < Len(modelNames)
             THEN /\ gIdx' = gIdx + 1
                  /\ gPc' = "loop"
                  /\ gResponse' = gResponse
             ELSE /\ gIdx' = gIdx
                  /\ gPc' = "done"
                  /\ gResponse' = ExhaustedResponse(<<msg>>, nodeEnv)
    /\ gInFlight' = gInFlight - 1
    /\ UNCHANGED <<gBody, gApiKey, gObject>>
    /\ UNCHANGED <<aVars, nVars, envVars, authCallback, cVars>>

----------------------------------------------------------------------------
(* POST /api/ai/analyze-todos *)

Today == <<"t", "o", "d", "a", "y">>
Week == <<"w", "e", "e", "k">>

\* A value of the todos field: a JavaScript value that may also be an array
\* (t = "array", items its elements) or another object (t = "object").
TodosValue(t, s, n, items) == [t |-> t, s |-> s, n |-> n, items |-> items]

\* A request body: kind as for generate-todo; todos and period are the values
\* of the two fields when the body is an object; echo is the set of substrings
\* of the body that the SyntaxError of a malformed body quotes in its message.
AnalyzeBody(kind, todos, period, echo) ==
    [kind |-> kind, todos |-> todos, period |-> period, echo |-> echo]

TodosOf(body) ==
    IF body.kind = "object" THEN body.todos ELSE TodosValue("undefined", <<>>, 0, <<>>)

PeriodOf(body) == IF body.kind = "object" THEN body.period ELSE JsUndefined

\* lines 19 and 26: the two input checks; "ok" or the check that refused
ValidateAnalyze(todos, period) ==
    IF ~Truthy(todos) \/ todos.t # "array" THEN "todos required"
    ELSE IF ~Truthy(period) \/ ~(IsString(period) /\ period.s \in {Today, Week})
    THEN "period required"
    ELSE "ok"

\* the fields of an element of todos that the statistics read
TodoItem(completed, priority, dueDate, dueTime, category, createdDate) ==
    [completed |-> completed, priority |-> priority, due_date |-> dueDate,
     due_time |-> dueTime, category |-> category, created_date |-> createdDate]

\* the decimal digits of n
RECURSIVE Decimal(_)
Decimal(n) == IF n < 10 THEN <<DigitChar(n)>> ELSE Decimal(n \div 10) \o <<DigitChar(n % 10)>>

NaNText == <<"N", "a", "N">>

\* ((completed / total) * 100).toFixed(1): one decimal, rounded half up; 0 / 0
\* is NaN
ToFixed1(completed, total) ==
    IF total = 0 THEN NaNText
    ELSE LET tenths == (2000 * completed + total) \div (2 * total)
         IN Decimal(tenths \div 10) \o <<".">> \o <<DigitChar(tenths % 10)>>

\* a rate as the prompt shows it: the two counts, the text, and the divisions
\* evaluated to get the text (numerator, denominator)
Rate(total, completed, text, divided) ==
    [total |-> total, completed |-> completed, text |-> text, divided |-> divided]

\* ((completed / total) * 100).toFixed(1) with no test of total
UnguardedRate(completed, total) ==
    Rate(total, completed, ToFixed1(completed, total), {<<completed, total>>})

\* a rate that divides whatever total is
GuardedRateDividesAlways(completed, total) == UnguardedRate(completed, total)

\* lines 48, 53, 57, 61, 74 and 212: total > 0 ? (...).toFixed(1) : "0"
GuardedRate(completed, total) ==
    IF total > 0 THEN UnguardedRate(completed, total)
    ELSE Rate(total, completed, <<"0">>, {})

\* the text before the first ":" of s
RECURSIVE UpToColon(_)
UpToColon(s) ==
    IF s = <<>> \/ s[1] = ":" THEN <<>> ELSE <<s[1]>> \o UpToColon(SubSeq(s, 2, Len(s)))

\* slots whose upper bounds are inclusive
SlotOfUpperInclusive(dueTime) ==
    LET part == UpToColon(dueTime)
        hours == NumVal(part)
    IN IF ~AllDigits(part, 1, Len(part)) THEN 0
       ELSE IF hours >= 9 /\ hours <= 12 THEN 1
       ELSE IF hours > 12 /\ hours <= 18 THEN 2
       ELSE IF hours > 18 /\ hours <= 21 THEN 3
       ELSE IF hours > 21 THEN 4
       ELSE 0

\* lines 100-112: the slot of a due_time, 0 when it falls in none; Number of a
\* text that is not a number is NaN, which no comparison accepts
SlotOf(dueTime) ==
    LET part == UpToColon(dueTime)
        hours == NumVal(part)
    IN IF ~AllDigits(part, 1, Len(part)) THEN 0
       ELSE IF hours >= 9 /\ hours < 12 THEN 1
       ELSE IF hours >= 12 /\ hours < 18 THEN 2
       ELSE IF hours >= 18 /\ hours < 21 THEN 3
       ELSE IF hours >= 21 THEN 4
       ELSE 0

SlotOrder == <<1, 2, 3, 4>>

\* lines 116-124: the weekdays in the order the record lists them (getDay
\* numbers, Monday first)
DayOrder == <<1, 2, 3, 4, 5, 6, 0>>

\* line 140: the category of a todo without one
Etc == <<"e", "t", "c">>

\* lines 160-176: of the entries with total > 0, the first in order with the
\* highest rate (the sort is stable); with two entries or more the comparator
\* divides for the entries it compares
MostProductive(order, counts) ==
    LET kept == SelectSeq(order, LAMBDA k : counts[k].total > 0)
        Best(i) == \A j \in 1..Len(kept) :
                      /\ counts[kept[j]].completed * counts[kept[i]].total
                            <= counts[kept[i]].completed * counts[kept[j]].total
                      /\ (j < i) => counts[kept[j]].completed * counts[kept[i]].total
                                      < counts[kept[i]].completed * counts[kept[j]].total
    IN IF kept = <<>> THEN [entry |-> None, compared |-> {}]
       ELSE LET i == CHOOSE i \in 1..Len(kept) : Best(i)
            IN [entry |-> Some([key |-> kept[i],
                                rate |-> UnguardedRate(counts[kept[i]].completed,
                                                       counts[kept[i]].total)]),
                compared |-> IF Len(kept) >= 2
                             THEN {<<counts[kept[k]].completed, counts[kept[k]].total>> :
                                      k \in 1..Len(kept)}
                             ELSE {}]

\* lines 46-176 and 186-234: the counts and the rates of the prompt
Statistics(todos, tz) ==
    LET idx == 1..Len(todos)
        Count(S) == Cardinality(S)
        done == {i \in idx : todos[i].completed}
        With(p) == {i \in idx : todos[i].priority = JsString(p)}
        dated == {i \in idx : Truthy(todos[i].due_date)}
        Due(i) == NewDate(todos[i].due_date.s, tz)
        Created(i) == IF IsString(todos[i].created_date)
                      THEN NewDate(todos[i].created_date.s, tz) ELSE InvalidDate
        onTime == {i \in dated \cap done :
                      Due(i).valid /\ Created(i).valid /\ Created(i).t <= Due(i).t}
        InSlot(k) == {i \in idx : Truthy(todos[i].due_time) /\ SlotOf(todos[i].due_time.s) = k}
        OnDay(d) == {i \in dated : Due(i).valid /\ GetDay(Due(i), tz) = d}
        CategoryOf(i) == IF Truthy(todos[i].category) THEN todos[i].category.s ELSE Etc
        InCategory(c) == {i \in idx : CategoryOf(i) = c}
        slotCounts == [k \in 1..4 |-> [total |-> Count(InSlot(k)),
                                       completed |-> Count(InSlot(k) \cap done)]]
        dayCounts == [d \in 0..6 |-> [total |-> Count(OnDay(d)),
                                      completed |-> Count(OnDay(d) \cap done)]]
    IN [overall |-> GuardedRate(Count(done), Count(idx)),
        priorities |-> [p \in {High, Medium, Low} |->
                          GuardedRate(Count(With(p) \cap done), Count(With(p)))],
        onTime |-> GuardedRate(Count(onTime), Count(dated)),
        slots |-> [k \in 1..4 |-> GuardedRate(slotCounts[k].completed, slotCounts[k].total)],
        days |-> [d \in {d \in 0..6 : dayCounts[d].total > 0} |->
                    UnguardedRate(dayCounts[d].completed, dayCounts[d].total)],
        categories |-> [c \in {CategoryOf(i) : i \in idx} |->
                          UnguardedRate(Count(InCategory(c) \cap done), Count(InCategory(c)))],
        productiveSlot |-> MostProductive(SlotOrder, slotCounts),
        productiveDay |-> MostProductive(DayOrder, dayCounts)]

NoPrompt == <<>>

\* lines 15-183: parse and destructure, validate, check the API key, compute the
\* statistics and start the single generateObject call
AnalyzeReceive ==
    /\ aPc = "start"
    /\ IF aBody.kind = "malformed"
       THEN /\ aError' = <<aBody.echo>>
            /\ aResponse' = AnalyzeCatchResponse(<<aBody.echo>>, nodeEnv)
            /\ aPc' = "done"
            /\ aCalls' = aCalls
       ELSE IF aBody.kind = "null"
       THEN /\ aError' = DestructureError
            /\ aResponse' = AnalyzeCatchResponse(DestructureError, nodeEnv)
            /\ aPc' = "done"
            /\ aCalls' = aCalls
       ELSE IF ValidateAnalyze(TodosOf(aBody), PeriodOf(aBody)) # "ok"
       THEN /\ aResponse' = ErrorResponse(400, ValidateAnalyze(TodosOf(aBody), PeriodOf(aBody)))
            /\ aPc' = "done"
            /\ UNCHANGED <<aError, aCalls>>
       ELSE IF ~aApiKey
       THEN /\ aResponse' = ErrorResponse(500, "no api key")
            /\ aPc' = "done"
            /\ UNCHANGED <<aError, aCalls>>
       ELSE /\ aCalls' = aCalls + 1
            /\ aPc' = "await"
            /\ UNCHANGED <<aError, aResponse>>
    /\ aPrompt' = IF aPc' = "await" THEN <<Statistics(TodosOf(aBody).items, tzOffset)>>
                  ELSE aPrompt
    /\ UNCHANGED <<aBody, aApiKey>>
    /\ UNCHANGED <<gVars, nVars, envVars, authCallback, cVars>>

\* line 308: the call resolves and its object is returned as it is
AnalyzeCallSucceeds(results) ==
    /\ aPc = "await"
    /\ \E obj \in results : aResponse' = DataResponse(obj)
    /\ aPc' = "done"
    /\ UNCHANGED <<aBody, aApiKey, aCalls, aError, aPrompt>>
    /\ UNCHANGED <<gVars, nVars, envVars, authCallback, cVars>>

\* lines 309-358: the call rejects and the catch answers from error.message
AnalyzeCallFails(messages) ==
    /\ aPc = "await"
    /\ \E msg \in messages :
          /\ aError' = <<msg>>
          /\ aResponse' = AnalyzeCatchResponse(<<msg>>, nodeEnv)
    /\ aPc' = "done"
    /\ UNCHANGED <<aBody, aApiKey, aCalls, aPrompt>>
    /\ UNCHANGED <<gVars, nVars, envVars, authCallback, cVars>>

----------------------------------------------------------------------------
(* postprocessResult applied once and then again to its own output *)

Normalize ==
    /\ nPc = "start"
    /\ nOnce' = postprocessResult(nInput, currentDate, tzOffset)
    /\ nPc' = "once"
    /\ UNCHANGED <<nInput, nTwice>>
    /\ UNCHANGED <<gVars, aVars, envVars, authCallback, cVars>>

Renormalize ==
    /\ nPc = "once"
    /\ nTwice' = postprocessResult(nOnce, currentDate, tzOffset)
    /\ nPc' = "twice"
    /\ UNCHANGED <<nInput, nOnce>>
    /\ UNCHANGED <<gVars, aVars, envVars, authCallback, cVars>>

----------------------------------------------------------------------------
(* The auth callback route: GET *)

\* the origin of a URL: its scheme and its host (no port in this model); a
\* URL whose scheme is not http or https has an opaque origin, host <<>>
Origin(scheme, host) == [scheme |-> scheme, host |-> host]

Https == <<"h", "t", "t", "p", "s">>
Http == <<"h", "t", "t", "p">>
Alpha == {"a", "b", "c", "d", "e", "f", "g", "h", "i", "j", "k", "l", "m", "n", "o",
          "p", "q", "r", "s", "t", "u", "v", "w", "x", "y", "z"}

\* in a URL of a special scheme the parser takes a backslash for a slash
Slashy(c) == c \in {"/", "\\"}

\* the parser drops tabs and newlines wherever they stand
WithoutTabs(s) == SelectSeq(s, LAMBDA c : c \notin {"\t", "\n", "\r"})

\* the position of the colon that ends a scheme, 0 when s starts with none
SchemeEnd(s) ==
    IF \E k \in 2..Len(s) : s[k] = ":" /\ \A j \in 1..(k - 1) : s[j] \in Alpha
    THEN CHOOSE k \in 2..Len(s) : s[k] = ":" /\ \A j \in 1..(k - 1) : s[j] \in Alpha
    ELSE 0

\* the host of the authority that starts at from, slashes before it skipped:
\* it ends before the next slash, ? or #, and starts after the last @
HostAt(s, from) ==
    LET start == IF \E k \in from..Len(s) : ~Slashy(s[k])
                 THEN CHOOSE k \in from..Len(s) :
                          ~Slashy(s[k]) /\ \A j \in from..(k - 1) : Slashy(s[j])
                 ELSE Len(s) + 1
        Ends(k) == Slashy(s[k]) \/ s[k] \in {"?", "#"}
        stop == IF \E k \in start..Len(s) : Ends(k)
                THEN CHOOSE k \in start..Len(s) : Ends(k) /\ \A j \in start..(k - 1) : ~Ends(j)
                ELSE Len(s) + 1
        ats == {k \in start..(stop - 1) : s[k] = "@"}
        first == IF ats = {} THEN start ELSE (CHOOSE k \in ats : \A j \in ats : j <= k) + 1
    IN SubSeq(s, first, stop - 1)

\* a reference without a scheme against the base: two leading slashes start
\* an authority, anything else stays on the base's host
RelativeOrigin(s, base) ==
    IF Len(s) >= 2 /\ Slashy(s[1]) /\ Slashy(s[2])
    THEN Origin(base.scheme, HostAt(s, 3))
    ELSE base

\* the origin of new URL(input, base), base being an http(s) origin; an
\* authority with an empty host makes the constructor throw: None
UrlOrigin(input, base) ==
    LET s == WithoutTabs(input)
        k == SchemeEnd(s)
        scheme == SubSeq(s, 1, k - 1)
        rest == SubSeq(s, k + 1, Len(s))
        origin == IF k = 0 THEN RelativeOrigin(s, base)
                  ELSE IF scheme \notin {Http, Https} THEN Origin(scheme, <<>>)
                  ELSE IF scheme = base.scheme THEN RelativeOrigin(rest, base)
                  ELSE Origin(scheme, HostAt(rest, 1))
    IN IF origin.scheme \in {Http, Https} /\ origin.host = <<>> THEN None ELSE Some(origin)

\* the URL of a request to the route: its origin and its code and next
\* parameters, None when the parameter is absent
CallbackUrl(origin, code, next) == [origin |-> origin, code |-> code, next |-> next]

NoUrl == CallbackUrl(Origin(<<>>, <<>>), None, None)

\* NextResponse.redirect(url): the origin of the target, and whether the
\* target is /login?error=auth_callback_error; status 500 when the handler threw
Redirect(origin, login) == [status |-> 307, origin |-> origin, login |-> login]
NoRedirect == [status |-> 0, origin |-> Origin(<<>>, <<>>), login |-> FALSE]
Threw == [status |-> 500, origin |-> Origin(<<>>, <<>>), login |-> FALSE]

\* line 7: searchParams.get("next") || "/"
NextOf(url) == IF url.next = None \/ url.next = Some(<<>>) THEN <<"/">> ELSE url.next[1]

\* line 20: the redirect to the login page of the request's origin
ToLogin(url) == Redirect(url.origin, TRUE)

\* lines 4-11 and 19-20: the handler runs up to exchangeCodeForSession, or
\* redirects to the login page when there is no code
CallbackReceive ==
    /\ authCallback.pc = "start"
    /\ authCallback' =
          IF authCallback.url.code = None \/ authCallback.url.code = Some(<<>>)
          THEN [authCallback EXCEPT !.pc = "done", !.response = ToLogin(authCallback.url)]
          ELSE [authCallback EXCEPT !.pc = "exchange"]
    /\ UNCHANGED <<gVars, aVars, nVars, envVars, cVars>>

\* lines 11-20: exchangeCodeForSession settles; without an error the
\* redirect goes to new URL(next, requestUrl.origin)
ExchangeResolves(errors) ==
    /\ authCallback.pc = "exchange"
    /\ \E error \in errors :
          LET target == UrlOrigin(NextOf(authCallback.url), authCallback.url.origin)
          IN authCallback' =
                [authCallback EXCEPT
                    !.pc = "done",
                    !.response = IF error THEN ToLogin(authCallback.url)
                                 ELSE IF target = None THEN Threw
                                 ELSE Redirect(target[1], FALSE)]
    /\ UNCHANGED <<gVars, aVars, nVars, envVars, cVars>>

----------------------------------------------------------------------------
(* The home page: state and handleAnalyzeTodos *)

\* a row of the todos table
Row(id, userId, title, description, dueDate, priority, category, completed) ==
    [id |-> id, user_id |-> userId, title |-> title, description |-> description,
     due_date |-> dueDate, priority |-> priority, category |-> category,
     completed |-> completed]

\* a row of user u1 with the given due date
Todo(id, dueDate) == Row(id, "u1", <<"a">>, JsNull, dueDate, Medium, JsNull, FALSE)

\* lines 35-57: the React state of HomePage once the user and the list are
\* loaded; user is the id of the user in state and profile says where the
\* name shown comes from; redirect is set once the page leaves for /login or
\* a timer that does so is armed
PageState(user, todos) ==
    [user |-> user, todos |-> todos, editingTodo |-> None, isFormOpen |-> FALSE,
     isLoadingTodos |-> FALSE, errorMessage |-> None, analysisData |-> None,
     isLoadingUser |-> FALSE, profile |-> None, statusFilter |-> "all",
     isAnalyzing |-> FALSE, analysisPeriod |-> "today", analysisError |-> None,
     deletingTodoIds |-> {}, redirect |-> FALSE]

\* the category value that stands for no category
NoCategory == <<"n", "o", "n", "e">>

\* TodoForm.tsx lines 50-76: the state of a form rendered without a todo
EmptyForm ==
    [title |-> <<>>, description |-> <<>>, date |-> None, priority |-> Medium,
     category |-> NoCategory, aiInput |-> <<>>, isGenerating |-> FALSE, aiError |-> None]

MaxInvocations == 2  \* handler invocations in one behaviour

\* one invocation of a handler: its position, its argument and its locals;
\* log lists what the invocation has done so far, in order; answer is the
\* response to its select on the todos table while that response is under way
Invocation(fn, pc, id, period, filtered) ==
    [fn |-> fn, pc |-> pc, id |-> id, period |-> period, filtered |-> filtered,
     data |-> None, uid |-> None, log |-> <<>>, answer |-> None]

\* an invocation of a handler that works on the todos table: data is the form
\* data it was called with, uid the id of the session user once it is known
Started(fn, pc, id, data) ==
    [fn |-> fn, pc |-> pc, id |-> id, period |-> "", filtered |-> None,
     data |-> data, uid |-> None, log |-> <<>>, answer |-> None]

\* a request the browser issued, with the invocation that issued it
Request(call, to, op, body) == [call |-> call, to |-> to, op |-> op, body |-> body]

\* lines 735-738: today's local midnight and the Sunday that starts its week
TodayOf(clock, tz) == SetHoursZero([valid |-> TRUE, t |-> clock], tz)
WeekStartOf(clock, tz) ==
    [valid |-> TRUE, t |-> TodayOf(clock, tz).t - 1440 * GetDay(TodayOf(clock, tz), tz)]

\* lines 748-750: weekStart plus six days, at 23:59:59.999; dates are kept to
\* the minute, so the last minute that is <= weekEnd is the one starting at 23:59
WeekEndMinute(clock, tz) == WeekStartOf(clock, tz).t + 6 * 1440 + 23 * 60 + 59

\* lines 741-758: todos.filter for the period
FilterByPeriod(todos, period, clock, tz) ==
    LET DueToday(todo) ==
            /\ Truthy(todo.due_date)
            /\ LET dueDate == SetHoursZero(NewDate(todo.due_date.s, tz), tz)
               IN dueDate.valid /\ dueDate.t = TodayOf(clock, tz).t
        DueThisWeek(todo) ==
            /\ Truthy(todo.due_date)
            /\ LET dueDate == NewDate(todo.due_date.s, tz)
               IN /\ dueDate.valid
                  /\ dueDate.t >= WeekStartOf(clock, tz).t
                  /\ dueDate.t <= WeekEndMinute(clock, tz)
    IN IF period = "today" THEN SelectSeq(todos, DueToday)
       ELSE IF period = "week" THEN SelectSeq(todos, DueThisWeek)
       ELSE todos

\* lines 723-775 without the test of filteredTodos.length
HandleAnalyzeTodosNoEmptyCheck(period) ==
    /\ Len(runs) < MaxInvocations
    /\ ~page.isAnalyzing
    /\ Len(page.todos) # 0
    /\ IF page.user = None
       THEN /\ page' = [page EXCEPT !.analysisError = Some("no todos to analyze")]
            /\ runs' = Append(runs, Invocation("analyze", "done", 0, period, None))
            /\ sent' = sent
       ELSE LET filtered == FilterByPeriod(page.todos, period, now, tzOffset)
            IN /\ page' = [page EXCEPT !.isAnalyzing = TRUE, !.analysisError = None,
                                       !.analysisPeriod = period]
               /\ sent' = Append(sent, Request(Len(runs) + 1, "/api/ai/analyze-todos", "POST",
                                               [todos |-> filtered, period |-> period]))
               /\ runs' = Append(runs, Invocation("analyze", "fetch", 0, period, Some(filtered)))
    /\ UNCHANGED <<form, storage, now, isMounted>>
    /\ UNCHANGED <<gVars, aVars, nVars, envVars, authCallback>>

\* lines 723-775: a click on one of the two analysis buttons (disabled while
\* isAnalyzing or when todos is empty, lines 933 and 1011) runs the handler up
\* to its fetch
HandleAnalyzeTodos(period) ==
    /\ Len(runs) < MaxInvocations
    /\ ~page.isAnalyzing
    /\ Len(page.todos) # 0
    /\ IF page.user = None \/ Len(page.todos) = 0
       THEN /\ page' = [page EXCEPT !.analysisError = Some("no todos to analyze")]
            /\ runs' = Append(runs, Invocation("analyze", "done", 0, period, None))
            /\ sent' = sent
       ELSE LET filtered == FilterByPeriod(page.todos, period, now, tzOffset)
            IN IF Len(filtered) = 0
               THEN /\ page' = [page EXCEPT
                                  !.isAnalyzing = FALSE,
                                  !.analysisError = Some(IF period = "today" THEN "nothing today"
                                                         ELSE "nothing this week"),
                                  !.analysisPeriod = period]
                    /\ runs' = Append(runs, Invocation("analyze", "done", 0, period, Some(filtered)))
                    /\ sent' = sent
               ELSE /\ page' = [page EXCEPT !.isAnalyzing = TRUE, !.analysisError = None,
                                            !.analysisPeriod = period]
                    /\ sent' = Append(sent, Request(Len(runs) + 1, "/api/ai/analyze-todos", "POST",
                                                    [todos |-> filtered, period |-> period]))
                    /\ runs' = Append(runs, Invocation("analyze", "fetch", 0, period, Some(filtered)))
    /\ UNCHANGED <<form, storage, now, isMounted>>
    /\ UNCHANGED <<gVars, aVars, nVars, envVars, authCallback>>

\* what the fetch gives back: the promise rejects, or there is a response with
\* its ok flag and the error and data fields of its body
FetchOutcome(rejected, ok, error, data) ==
    [rejected |-> rejected, ok |-> ok, error |-> error, data |-> data]

\* lines 777-794: the fetch settles; the body is read and the state is set
AnalyzeFetchResolves(outcomes) ==
    \E i \in 1..Len(runs), o \in outcomes :
        /\ runs[i].fn = "analyze"
        /\ runs[i].pc = "fetch"
        /\ page' = (IF o.rejected
                    THEN [page EXCEPT !.analysisError = Some("fetch failed"),
                                      !.analysisData = None, !.isAnalyzing = FALSE]
                    ELSE IF ~o.ok
                    THEN [page EXCEPT
                            !.analysisError = (IF o.error # None /\ o.error[1] # ""
                                               THEN o.error ELSE Some("analysis failed")),
                            !.analysisData = None, !.isAnalyzing = FALSE]
                    ELSE IF o.data = None
                    THEN [page EXCEPT !.analysisError = Some("no analysis data"),
                                      !.analysisData = None, !.isAnalyzing = FALSE]
                    ELSE [page EXCEPT !.analysisData = o.data, !.isAnalyzing = FALSE])
        /\ runs' = [runs EXCEPT ![i].pc = "done"]
        /\ UNCHANGED <<form, storage, sent, now, isMounted>>
        /\ UNCHANGED <<gVars, aVars, nVars, envVars, authCallback>>

----------------------------------------------------------------------------
(* The home page: the status filter of the list *)

\* lines 266-271: the due date of a todo is before the clock
DueBefore(todo, clock, tz) ==
    /\ Truthy(todo.due_date)
    /\ DateLess(NewDate(todo.due_date.s, tz), [valid |-> TRUE, t |-> clock])

\* lines 260-273: the status stage of filteredAndSortedTodos
StatusFiltered(todos, status, clock, tz) ==
    IF status = "active" THEN SelectSeq(todos, LAMBDA todo : ~todo.completed)
    ELSE IF status = "completed" THEN SelectSeq(todos, LAMBDA todo : todo.completed)
    ELSE IF status = "overdue"
    THEN SelectSeq(todos, LAMBDA todo : ~todo.completed /\ DueBefore(todo, clock, tz))
    ELSE todos

\* lines 248-303: the list the page shows, with no search text and no
\* priority filter
filteredAndSortedTodos == StatusFiltered(page.todos, page.statusFilter, now, tzOffset)

\* line 37: the user picks a status in the filter
SetStatusFilter(statuses) ==
    /\ \E status \in statuses :
          /\ status # page.statusFilter
          /\ page' = [page EXCEPT !.statusFilter = status]
    /\ UNCHANGED <<form, storage, sent, runs, now, isMounted>>
    /\ UNCHANGED <<gVars, aVars, nVars, envVars, authCallback>>

----------------------------------------------------------------------------
(* TodoForm: the AI input and handleAIGenerate *)

\* TodoForm.tsx line 220: the user types into the AI input (disabled while
\* isGenerating)
TypeAiInput(texts) ==
    /\ ~form.isGenerating
    /\ \E text \in texts :
          /\ form.aiInput # text
          /\ form' = [form EXCEPT !.aiInput = text]
    /\ UNCHANGED <<page, storage, sent, runs, now, isMounted>>
    /\ UNCHANGED <<gVars, aVars, nVars, envVars, authCallback>>

\* TodoForm.tsx lines 260-267: the user types into the title field
TypeTitle(titles) ==
    /\ \E title \in titles :
          /\ form.title # title
          /\ form' = [form EXCEPT !.title = title]
    /\ UNCHANGED <<page, storage, sent, runs, now, isMounted>>
    /\ UNCHANGED <<gVars, aVars, nVars, envVars, authCallback>>

\* TodoForm.tsx lines 104-120: Enter in the AI input or a click on the button
\* runs handleAIGenerate up to its fetch; the request reaches a fresh
\* invocation of the generate-todo handler
HandleAIGenerate ==
    /\ Len(runs) < MaxInvocations
    /\ ~form.isGenerating
    /\ IF Trim(form.aiInput) = <<>>
       THEN /\ form' = [form EXCEPT !.aiError = Some("enter a sentence")]
            /\ runs' = Append(runs, Invocation("generate", "done", 0, "", None))
            /\ UNCHANGED <<sent, gVars>>
       ELSE /\ form' = [form EXCEPT !.isGenerating = TRUE, !.aiError = None]
            /\ sent' = Append(sent, Request(Len(runs) + 1, "/api/ai/generate-todo", "POST",
                                            [text |-> Trim(form.aiInput)]))
            /\ runs' = Append(runs, Invocation("generate", "fetch", 0, "", None))
            /\ gPc' = "start"
            /\ gBody' = GenBody("object", JsString(Trim(form.aiInput)))
            /\ gIdx' = 1
            /\ gInFlight' = 0
            /\ gCalls' = <<>>
            /\ gLastError' = NoError
            /\ gObject' = <<>>
            /\ gResponse' = NoResponse
            /\ gApiKey' = gApiKey
    /\ UNCHANGED <<page, storage, now, isMounted>>
    /\ UNCHANGED <<aVars, nVars, envVars, authCallback>>

\* TodoForm.tsx lines 152-166: the due date and time of the draft as a Date;
\* due_time is HH:mm or absent, as the endpoint returns it
DraftDate(data, tz) ==
    LET timeStr == IF Truthy(data.due_time) THEN data.due_time.s ELSE FormatTime(9, 0)
    IN IF MatchesTimeRegex(timeStr)
       THEN SetHours(ParseISO(data.due_date.s, tz), NumVal(SubSeq(timeStr, 1, 2)),
                     NumVal(SubSeq(timeStr, 4, 5)), tz)
       ELSE InvalidDate

\* TodoForm.tsx lines 142-181: the draft is written into the form
ApplyDraft(f, data, tz) ==
    [f EXCEPT
        !.title = IF Truthy(data.title) THEN data.title.s ELSE @,
        !.description = IF Truthy(data.description) THEN data.description.s ELSE @,
        !.date = IF Truthy(data.due_date) THEN Some(DraftDate(data, tz)) ELSE @,
        !.priority = IF Truthy(data.priority) THEN data.priority.s ELSE @,
        !.category = IF Truthy(data.category) THEN data.category.s ELSE NoCategory,
        !.aiInput = <<>>]

\* a form that stores the draft as soon as it arrives
AIFetchResolvesAndSaves ==
    \E i \in 1..Len(runs) :
        /\ runs[i].fn = "generate"
        /\ runs[i].pc = "fetch"
        /\ gPc = "done"
        /\ form' = (IF gResponse.status # 200
                    THEN [form EXCEPT !.aiError = Some("generation failed"), !.isGenerating = FALSE]
                    ELSE IF gResponse.data = <<>>
                    THEN [form EXCEPT !.aiError = Some("no data"), !.isGenerating = FALSE]
                    ELSE [ApplyDraft(form, gResponse.data[1], tzOffset) EXCEPT !.isGenerating = FALSE])
        /\ sent' = (IF gResponse.status = 200 /\ gResponse.data # <<>> /\ page.user # None
                    THEN Append(sent, Request(i, "todos", "insert",
                                              [user_id |-> page.user[1], draft |-> gResponse.data[1]]))
                    ELSE sent)
        /\ runs' = [runs EXCEPT ![i].pc = "done"]
        /\ UNCHANGED <<page, storage, now, isMounted>>
        /\ UNCHANGED <<gVars, aVars, nVars, envVars, authCallback>>

\* TodoForm.tsx lines 122-202: the response arrives; the draft, or the error
AIFetchResolves ==
    \E i \in 1..Len(runs) :
        /\ runs[i].fn = "generate"
        /\ runs[i].pc = "fetch"
        /\ gPc = "done"
        /\ form' = (IF gResponse.status # 200
                    THEN [form EXCEPT
                            !.aiError = Some(IF gResponse.error # "" THEN gResponse.error
                                             ELSE "generation failed"),
                            !.isGenerating = FALSE]
                    ELSE IF gResponse.data = <<>>
                    THEN [form EXCEPT !.aiError = Some("no data"), !.isGenerating = FALSE]
                    ELSE [ApplyDraft(form, gResponse.data[1], tzOffset) EXCEPT !.isGenerating = FALSE])
        /\ runs' = [runs EXCEPT ![i].pc = "done"]
        /\ UNCHANGED <<page, storage, sent, now, isMounted>>
        /\ UNCHANGED <<gVars, aVars, nVars, envVars, authCallback>>

\* TodoForm.tsx lines 183-202: the fetch rejects, or the body is not JSON
AIFetchRejects ==
    \E i \in 1..Len(runs) :
        /\ runs[i].fn = "generate"
        /\ runs[i].pc = "fetch"
        /\ gPc = "done"
        /\ form' = [form EXCEPT !.aiError = Some("fetch failed"), !.isGenerating = FALSE]
        /\ runs' = [runs EXCEPT ![i].pc = "done"]
        /\ UNCHANGED <<page, storage, sent, now, isMounted>>
        /\ UNCHANGED <<gVars, aVars, nVars, envVars, authCallback>>

----------------------------------------------------------------------------
(* The home page: handleFormSubmit, handleAddTodo, handleEditTodo *)

\* TodoForm.tsx lines 94-101: the data onFormSubmit hands to onSubmit
FormData(f, tz) ==
    [title |-> f.title, description |-> f.description,
     due_date |-> IF f.date # None THEN Some(FormatLocalDateTime(f.date[1], tz)) ELSE None,
     category |-> IF f.category = NoCategory THEN None ELSE Some(f.category),
     priority |-> f.priority]

\* lines 326-341 and 485-499: due_date of the row, from the form's local string
DueDateOf(data, tz) ==
    IF data.due_date = None THEN JsNull
    ELSE IF NewDate(data.due_date[1], tz).valid
    THEN JsString(ToISOString(NewDate(data.due_date[1], tz)))
    ELSE JsNull

\* lines 478-483: updateData without due_date
TextFieldsOf(data) ==
    [title |-> Trim(data.title),
     description |-> IF Trim(data.description) = <<>> THEN JsNull
                     ELSE JsString(Trim(data.description)),
     priority |-> IF data.priority = <<>> THEN Medium ELSE data.priority,
     category |-> IF data.category # None /\ data.category[1] # <<>>
                     /\ data.category[1] # NoCategory
                  THEN JsString(data.category[1]) ELSE JsNull]

\* lines 318-341 and 365: insertData, its user_id set to the session user's id
InsertData(data, userId, tz) ==
    LET fields == TextFieldsOf(data)
    IN [user_id |-> userId, title |-> fields.title, description |-> fields.description,
        priority |-> fields.priority, category |-> fields.category, completed |-> FALSE,
        due_date |-> DueDateOf(data, tz)]

\* supabase.auth.getSession(): an error, no session, or the session of a user
Session(error, user) == [error |-> error, user |-> user]

\* what a request to the todos table gives back: no error, or an error code
NoCode == ""
AuthCodes == {"PGRST301", "PGRST116", "JWT"}

\* the id the table gives the next row
NextId(rows) == IF rows = {} THEN 1 ELSE (CHOOSE r \in rows : \A q \in rows : q.id <= r.id).id + 1

\* lines 717-720
HandleEditTodo ==
    /\ \E i \in 1..Len(page.todos) :
          /\ page.editingTodo # Some(page.todos[i])
          /\ page' = [page EXCEPT !.editingTodo = Some(page.todos[i]), !.isFormOpen = TRUE]
    /\ UNCHANGED <<form, storage, sent, runs, now, isMounted>>
    /\ UNCHANGED <<gVars, aVars, nVars, envVars, authCallback>>

\* TodoForm.tsx lines 94-101 and 206, page.tsx lines 797-803, 305-342 and
\* 456-464: the user submits the form (the title is required); handleFormSubmit
\* calls handleUpdateTodo or handleAddTodo, which runs up to its getSession
OnFormSubmit ==
    /\ Len(runs) < MaxInvocations
    /\ form.title # <<>>
    /\ IF form.date = None THEN TRUE ELSE form.date[1].valid
    /\ LET data == FormData(form, tzOffset)
       IN IF page.editingTodo # None
          THEN IF page.user = None
               THEN /\ runs' = Append(runs, Started("update", "done", page.editingTodo[1].id, Some(data)))
                    /\ page' = page
               ELSE /\ runs' = Append(runs, Started("update", "session", page.editingTodo[1].id, Some(data)))
                    /\ page' = [page EXCEPT !.errorMessage = None]
          ELSE IF page.user = None
               THEN /\ runs' = Append(runs, Started("add", "done", 0, Some(data)))
                    /\ page' = page
               ELSE IF Trim(data.title) = <<>>
               THEN /\ runs' = Append(runs, Started("add", "done", 0, Some(data)))
                    /\ page' = [page EXCEPT !.errorMessage = Some("enter a title")]
               ELSE /\ runs' = Append(runs, Started("add", "session", 0, Some(data)))
                    /\ page' = [page EXCEPT !.errorMessage = None]
    /\ UNCHANGED <<form, storage, sent, now, isMounted>>
    /\ UNCHANGED <<gVars, aVars, nVars, envVars, authCallback>>

\* a handler that inserts with the id of the user held in state
AddSessionResolvesStateUser(sessions) ==
    \E i \in 1..Len(runs), session \in sessions :
        /\ runs[i].fn = "add"
        /\ runs[i].pc = "session"
        /\ IF session.error \/ session.user = None
           THEN /\ page' = [page EXCEPT !.errorMessage = Some("no session")]
                /\ runs' = [runs EXCEPT ![i].pc = "done"]
                /\ sent' = sent
           ELSE /\ sent' = Append(sent, Request(i, "todos", "insert",
                                InsertData(runs[i].data[1], page.user[1], tzOffset)))
                /\ runs' = [runs EXCEPT ![i].pc = "insert", ![i].uid = session.user]
                /\ page' = page
        /\ UNCHANGED <<form, storage, now, isMounted>>
        /\ UNCHANGED <<gVars, aVars, nVars, envVars, authCallback>>

\* lines 343-369: getSession settles; with a session the insert is issued
AddSessionResolves(sessions) ==
    \E i \in 1..Len(runs), session \in sessions :
        /\ runs[i].fn = "add"
        /\ runs[i].pc = "session"
        /\ IF session.error \/ session.user = None
           THEN /\ page' = [page EXCEPT !.errorMessage =
                                Some(IF session.error THEN "cannot check the session"
                                     ELSE "no session")]
                /\ runs' = [runs EXCEPT ![i].pc = "done"]
                /\ sent' = sent
           ELSE /\ sent' = Append(sent, Request(i, "todos", "insert",
                                InsertData(runs[i].data[1], session.user[1], tzOffset)))
                /\ runs' = [runs EXCEPT ![i].pc = "insert", ![i].uid = session.user]
                /\ page' = page
        /\ UNCHANGED <<form, storage, now, isMounted>>
        /\ UNCHANGED <<gVars, aVars, nVars, envVars, authCallback>>

\* the request invocation i issued with operation op
RequestOf(i, op) == sent[CHOOSE j \in 1..Len(sent) : sent[j].call = i /\ sent[j].op = op]

\* lines 370-416 and 171-173: the insert settles; on an error the message is
\* set, else the row is in the table and fetchTodos starts
InsertResolves(codes) ==
    \E i \in 1..Len(runs), code \in codes :
        /\ runs[i].fn = "add"
        /\ runs[i].pc = "insert"
        /\ IF code # NoCode
           THEN /\ page' = [page EXCEPT !.errorMessage =
                                Some(IF code \in AuthCodes THEN "auth expired"
                                     ELSE IF code = "23505" THEN "already exists"
                                     ELSE IF code = "23503" THEN "user not found"
                                     ELSE IF code = "42501" THEN "not allowed"
                                     ELSE "add failed")]
                /\ runs' = [runs EXCEPT ![i].pc = "done"]
                /\ storage' = storage
           ELSE /\ LET b == RequestOf(i, "insert").body
                   IN storage' = storage \cup
                        {Row(NextId(storage), b.user_id, b.title, b.description, b.due_date,
                             b.priority, b.category, b.completed)}
                /\ page' = [page EXCEPT !.isLoadingTodos = TRUE, !.errorMessage = None]
                /\ runs' = [runs EXCEPT ![i].pc = "fetchSession"]
        /\ UNCHANGED <<form, sent, now, isMounted>>
        /\ UNCHANGED <<gVars, aVars, nVars, envVars, authCallback>>

\* lines 463-508: getSession settles; with a session the update is issued
UpdateSessionResolves(sessions) ==
    \E i \in 1..Len(runs), session \in sessions :
        /\ runs[i].fn = "update"
        /\ runs[i].pc = "session"
        /\ IF session.error \/ session.user = None
           THEN /\ page' = [page EXCEPT !.errorMessage =
                                Some(IF session.error THEN "cannot check the session"
                                     ELSE "no session")]
                /\ runs' = [runs EXCEPT ![i].pc = "done"]
                /\ sent' = sent
           ELSE /\ sent' = Append(sent, Request(i, "todos", "update",
                                [id |-> runs[i].id, user_id |-> session.user[1],
                                 fields |-> TextFieldsOf(runs[i].data[1]),
                                 due_date |-> DueDateOf(runs[i].data[1], tzOffset)]))
                /\ runs' = [runs EXCEPT ![i].pc = "update", ![i].uid = session.user]
                /\ page' = page
        /\ UNCHANGED <<form, storage, now, isMounted>>
        /\ UNCHANGED <<gVars, aVars, nVars, envVars, authCallback>>

\* the rows the filters .eq("id", id).eq("user_id", userId) select
Matching(rows, id, userId) == {r \in rows : r.id = id /\ r.user_id = userId}

\* lines 510-537 and 171-173: the update settles; .single() makes it an error
\* when no row matched; on success the row is changed and fetchTodos starts
UpdateResolves(codes) ==
    \E i \in 1..Len(runs), code \in codes :
        /\ runs[i].fn = "update"
        /\ runs[i].pc = "update"
        /\ LET b == RequestOf(i, "update").body
               hit == Matching(storage, b.id, b.user_id)
           IN /\ (code = NoCode) => (hit # {})
              /\ IF code # NoCode
                 THEN /\ page' = [page EXCEPT !.errorMessage =
                                      Some(IF code \in AuthCodes THEN "auth expired"
                                           ELSE IF code = "42501" THEN "not allowed"
                                           ELSE "update failed")]
                      /\ runs' = [runs EXCEPT ![i].pc = "done"]
                      /\ storage' = storage
                 ELSE /\ storage' = (storage \ hit) \cup
                              {Row(r.id, r.user_id, b.fields.title, b.fields.description,
                                   b.due_date, b.fields.priority, b.fields.category,
                                   r.completed) : r \in hit}
                      /\ page' = [page EXCEPT !.isLoadingTodos = TRUE, !.errorMessage = None]
                      /\ runs' = [runs EXCEPT ![i].pc = "fetchSession"]
        /\ UNCHANGED <<form, sent, now, isMounted>>
        /\ UNCHANGED <<gVars, aVars, nVars, envVars, authCallback>>

----------------------------------------------------------------------------
(* The home page: handleDeleteTodo *)

\* lines 548-558: the user confirms the deletion of a card (TodoCard.tsx lines
\* 43-47); the id is added to deletingTodoIds and the 600 ms timer is started
HandleDeleteTodo(ids) ==
    /\ Len(runs) < MaxInvocations
    /\ \E i \in 1..Len(page.todos) :
          /\ page.todos[i].id \in ids
          /\ IF page.user = None
             THEN /\ runs' = Append(runs, Started("delete", "done", page.todos[i].id, None))
                  /\ page' = page
             ELSE /\ runs' = Append(runs, [Started("delete", "delay", page.todos[i].id, None)
                                              EXCEPT !.log = <<"marked">>])
                  /\ page' = [page EXCEPT !.errorMessage = None,
                                          !.deletingTodoIds = @ \cup {page.todos[i].id}]
    /\ UNCHANGED <<form, storage, sent, now, isMounted>>
    /\ UNCHANGED <<gVars, aVars, nVars, envVars, authCallback>>

\* lines 558-563: the timer fires and getSession is called
DeleteDelayElapses ==
    \E i \in 1..Len(runs) :
        /\ runs[i].fn = "delete"
        /\ runs[i].pc = "delay"
        /\ runs' = [runs EXCEPT ![i].pc = "session", ![i].log = Append(@, "delay elapsed")]
        /\ UNCHANGED <<page, form, storage, sent, now, isMounted>>
        /\ UNCHANGED <<gVars, aVars, nVars, envVars, authCallback>>

\* lines 563-593 and 633-648: getSession settles; without a session the mark
\* is removed and the message set, else the delete is issued
DeleteSessionResolves(sessions) ==
    \E i \in 1..Len(runs), session \in sessions :
        /\ runs[i].fn = "delete"
        /\ runs[i].pc = "session"
        /\ IF session.error \/ session.user = None
           THEN /\ page' = [page EXCEPT
                              !.errorMessage = Some(IF session.error THEN "cannot check the session"
                                                    ELSE "no session"),
                              !.deletingTodoIds = @ \ {runs[i].id}]
                /\ runs' = [runs EXCEPT ![i].pc = "done",
                                        ![i].log = Append(@, "session failed")]
                /\ sent' = sent
           ELSE /\ sent' = Append(sent, Request(i, "todos", "delete",
                                [id |-> runs[i].id, user_id |-> session.user[1]]))
                /\ runs' = [runs EXCEPT ![i].pc = "delete", ![i].uid = session.user,
                                        ![i].log = Append(@, "delete issued")]
                /\ page' = page
        /\ UNCHANGED <<form, storage, now, isMounted>>
        /\ UNCHANGED <<gVars, aVars, nVars, envVars, authCallback>>

\* a handler that leaves the mark in place when the delete fails
DeleteResolvesKeepsMark(codes) ==
    \E i \in 1..Len(runs), code \in codes :
        /\ runs[i].fn = "delete"
        /\ runs[i].pc = "delete"
        /\ IF code # NoCode
           THEN /\ page' = [page EXCEPT !.errorMessage = Some("delete failed")]
                /\ runs' = [runs EXCEPT ![i].pc = "done",
                                        ![i].log = Append(@, "delete failed")]
                /\ storage' = storage
           ELSE /\ storage' = storage \ Matching(storage, RequestOf(i, "delete").body.id,
                                                  RequestOf(i, "delete").body.user_id)
                /\ page' = [page EXCEPT !.isLoadingTodos = TRUE, !.errorMessage = None]
                /\ runs' = [runs EXCEPT ![i].pc = "fetchSession",
                                        ![i].log = Append(@, "deleted")]
        /\ UNCHANGED <<form, sent, now, isMounted>>
        /\ UNCHANGED <<gVars, aVars, nVars, envVars, authCallback>>

\* lines 595-625 and 171-173: the delete settles; on an error the mark is
\* removed and the message set, else the matching rows are gone and
\* fetchTodos starts
DeleteResolves(codes) ==
    \E i \in 1..Len(runs), code \in codes :
        /\ runs[i].fn = "delete"
        /\ runs[i].pc = "delete"
        /\ IF code # NoCode
           THEN /\ page' = [page EXCEPT
                              !.errorMessage = Some(IF code \in AuthCodes THEN "auth expired"
                                                    ELSE IF code = "42501" THEN "not allowed"
                                                    ELSE "delete failed"),
                              !.deletingTodoIds = @ \ {runs[i].id}]
                /\ runs' = [runs EXCEPT ![i].pc = "done",
                                        ![i].log = Append(@, "delete failed")]
                /\ storage' = storage
           ELSE /\ storage' = storage \ Matching(storage, RequestOf(i, "delete").body.id,
                                                  RequestOf(i, "delete").body.user_id)
                /\ page' = [page EXCEPT !.isLoadingTodos = TRUE, !.errorMessage = None]
                /\ runs' = [runs EXCEPT ![i].pc = "fetchSession",
                                        ![i].log = Append(@, "deleted")]
        /\ UNCHANGED <<form, sent, now, isMounted>>
        /\ UNCHANGED <<gVars, aVars, nVars, envVars, authCallback>>

----------------------------------------------------------------------------
(* The home page: handleToggleComplete *)

\* lines 651-659, TodoCard.tsx line 36: the user flips the checkbox of a card;
\* the handler runs up to its getSession
HandleToggleComplete(ids) ==
    /\ Len(runs) < MaxInvocations
    /\ \E k \in 1..Len(page.todos) :
          /\ page.todos[k].id \in ids
          /\ LET args == Some([completed |-> ~page.todos[k].completed])
             IN IF page.user = None
                THEN /\ runs' = Append(runs, Started("toggle", "done", page.todos[k].id, args))
                     /\ page' = page
                ELSE /\ runs' = Append(runs, Started("toggle", "session", page.todos[k].id, args))
                     /\ page' = [page EXCEPT !.errorMessage = None]
    /\ UNCHANGED <<form, storage, sent, now, isMounted>>
    /\ UNCHANGED <<gVars, aVars, nVars, envVars, authCallback>>

\* lines 659-680 and 710-714: getSession settles; with a session the update
\* of completed is issued
ToggleSessionResolves(sessions) ==
    \E i \in 1..Len(runs), session \in sessions :
        /\ runs[i].fn = "toggle"
        /\ runs[i].pc = "session"
        /\ IF session.error \/ session.user = None
           THEN /\ page' = [page EXCEPT !.errorMessage =
                                Some(IF session.error THEN "cannot check the session"
                                     ELSE "no session")]
                /\ runs' = [runs EXCEPT ![i].pc = "done"]
                /\ sent' = sent
           ELSE /\ sent' = Append(sent, Request(i, "todos", "toggle",
                                [id |-> runs[i].id, user_id |-> session.user[1],
                                 completed |-> runs[i].data[1].completed]))
                /\ runs' = [runs EXCEPT ![i].pc = "toggle", ![i].uid = session.user]
                /\ page' = page
        /\ UNCHANGED <<form, storage, now, isMounted>>
        /\ UNCHANGED <<gVars, aVars, nVars, envVars, authCallback>>

\* lines 682-709 and 171-173: the update settles; .single() makes it an error
\* when no row matched; on success the row is changed and fetchTodos starts
ToggleResolves(codes) ==
    \E i \in 1..Len(runs), code \in codes :
        /\ runs[i].fn = "toggle"
        /\ runs[i].pc = "toggle"
        /\ LET b == RequestOf(i, "toggle").body
               hit == Matching(storage, b.id, b.user_id)
           IN /\ (code = NoCode) => (hit # {})
              /\ IF code # NoCode
                 THEN /\ page' = [page EXCEPT !.errorMessage =
                                      Some(IF code \in AuthCodes THEN "auth expired"
                                           ELSE IF code = "42501" THEN "not allowed"
                                           ELSE "toggle failed")]
                      /\ runs' = [runs EXCEPT ![i].pc = "done"]
                      /\ storage' = storage
                 ELSE /\ storage' = (storage \ hit) \cup
                              {[r EXCEPT !.completed = b.completed] : r \in hit}
                      /\ page' = [page EXCEPT !.isLoadingTodos = TRUE, !.errorMessage = None]
                      /\ runs' = [runs EXCEPT ![i].pc = "fetchSession"]
        /\ UNCHANGED <<form, sent, now, isMounted>>
        /\ UNCHANGED <<gVars, aVars, nVars, envVars, authCallback>>

----------------------------------------------------------------------------
(* The home page: fetchTodos, as the handlers above and below await it *)

\* the rows in the order .order("created_date", { ascending: false }) gives
\* them; ids are given in the order of creation
RECURSIVE NewestFirst(_)
NewestFirst(rows) ==
    IF rows = {} THEN <<>>
    ELSE LET newest == CHOOSE r \in rows : \A q \in rows : q.id <= r.id
         IN <<newest>> \o NewestFirst(rows \ {newest})

\* what the caller does once fetchTodos has returned: lines 414-415 and
\* 538-539 for an add or an update, lines 627-631 for a delete
AfterFetchTodos(p, run) ==
    IF run.fn = "delete"
    THEN [p EXCEPT !.deletingTodoIds = @ \ {run.id}]
    ELSE IF run.fn \in {"add", "update"}
    THEN [p EXCEPT !.isFormOpen = FALSE, !.editingTodo = None]
    ELSE p

\* lines 174-201 and 228-246: getSession settles inside fetchTodos; without
\* a session fetchTodos sets its error message and returns, else the select
\* is issued
FetchTodosSessionResolves(sessions) ==
    \E i \in 1..Len(runs), session \in sessions :
        /\ runs[i].pc = "fetchSession"
        /\ IF session.error \/ session.user = None
           THEN /\ page' = AfterFetchTodos(
                              [page EXCEPT !.errorMessage = Some("cannot load the list"),
                                           !.isLoadingTodos = FALSE], runs[i])
                /\ runs' = [runs EXCEPT ![i].pc = "done"]
                /\ sent' = sent
           ELSE /\ sent' = Append(sent, Request(i, "todos", "select",
                                                [user_id |-> session.user[1]]))
                /\ runs' = [runs EXCEPT ![i].pc = "fetchSelect", ![i].uid = session.user]
                /\ page' = page
        /\ UNCHANGED <<form, storage, now, isMounted>>
        /\ UNCHANGED <<gVars, aVars, nVars, envVars, authCallback>>

\* lines 196-200: the backend answers the select with an error code, or with
\* the rows of that user as they are at this moment; the response is then
\* under way to the browser
FetchTodosSelectServed(codes) ==
    \E i \in 1..Len(runs), code \in codes :
        /\ runs[i].pc = "fetchSelect"
        /\ runs' = [runs EXCEPT
                      ![i].pc = "fetchArrive",
                      ![i].answer = Some([code |-> code,
                                          rows |-> IF code = NoCode
                                                   THEN NewestFirst({r \in storage :
                                                          r.user_id = RequestOf(i, "select").body.user_id})
                                                   ELSE <<>>])]
        /\ UNCHANGED <<page, form, storage, sent, now, isMounted>>
        /\ UNCHANGED <<gVars, aVars, nVars, envVars, authCallback>>

\* lines 202-246: the response arrives; the list is replaced, or the message
\* is set (and the leave for /login armed when the error is about the session)
FetchTodosSelectResolves ==
    \E i \in 1..Len(runs) :
        /\ runs[i].pc = "fetchArrive"
        /\ LET code == runs[i].answer[1].code
           IN page' = AfterFetchTodos(
                      IF code = NoCode
                      THEN [page EXCEPT !.todos = runs[i].answer[1].rows,
                                        !.isLoadingTodos = FALSE]
                      ELSE IF code \in AuthCodes
                      THEN [page EXCEPT !.errorMessage = Some("auth expired"),
                                        !.redirect = TRUE, !.isLoadingTodos = FALSE]
                      ELSE [page EXCEPT !.errorMessage = Some("cannot load the list"),
                                        !.isLoadingTodos = FALSE],
                      runs[i])
        /\ runs' = [runs EXCEPT ![i].pc = "done", ![i].answer = None]
        /\ UNCHANGED <<form, storage, sent, now, isMounted>>
        /\ UNCHANGED <<gVars, aVars, nVars, envVars, authCallback>>

----------------------------------------------------------------------------
(* The home page: the auth effect (onAuthStateChange, focus, cleanup) *)

\* lines 64-72: fetchUserProfile up to its await: the invocation and the
\* select on the users table it issues
ProfileRun(authUser) == [Started("profile", "select", 0, None) EXCEPT !.uid = authUser]

\* lines 125-158 and 168-174: supabase calls the subscriber with an event
\* and the session; with a session the user is set from it, fetchUserProfile
\* and fetchTodos are started and neither is awaited
AuthStateChange(events, sessions) ==
    /\ \E event \in events, session \in sessions :
          IF ~isMounted
          THEN UNCHANGED <<page, runs, sent>>
          ELSE IF event = "SIGNED_OUT" \/ session.user = None
          THEN /\ page' = [page EXCEPT !.user = None, !.profile = None, !.redirect = TRUE]
               /\ UNCHANGED <<runs, sent>>
          ELSE /\ Len(runs) + 2 <= MaxInvocations
               /\ page' = [page EXCEPT !.user = session.user, !.profile = Some("session"),
                                       !.isLoadingUser = FALSE, !.isLoadingTodos = TRUE,
                                       !.errorMessage = None]
               /\ runs' = runs \o <<ProfileRun(session.user),
                                     Started("fetchTodos", "fetchSession", 0, None)>>
               /\ sent' = Append(sent, Request(Len(runs) + 1, "users", "select",
                                               [id |-> session.user[1]]))
    /\ UNCHANGED <<form, storage, now, isMounted>>
    /\ UNCHANGED <<gVars, aVars, nVars, envVars, authCallback>>

\* lines 109-114 and 120: the window gets the focus while the listener is
\* registered; handleFocus runs up to its getUser
HandleFocus ==
    /\ isMounted
    /\ Len(runs) < MaxInvocations
    /\ runs' = Append(runs, Started("focus", "getUser", 0, None))
    /\ UNCHANGED <<page, form, storage, sent, now, isMounted>>
    /\ UNCHANGED <<gVars, aVars, nVars, envVars, authCallback>>

\* lines 112-117 and 64-72: getUser settles; with a user and the page mounted
\* fetchUserProfile is called
FocusGetUserResolves(users) ==
    \E i \in 1..Len(runs), authUser \in users :
        /\ runs[i].fn = "focus"
        /\ runs[i].pc = "getUser"
        /\ IF authUser # None /\ isMounted
           THEN /\ runs' = [runs EXCEPT ![i].pc = "select", ![i].uid = authUser]
                /\ sent' = Append(sent, Request(i, "users", "select", [id |-> authUser[1]]))
           ELSE /\ runs' = [runs EXCEPT ![i].pc = "done"]
                /\ sent' = sent
        /\ UNCHANGED <<page, form, storage, now, isMounted>>
        /\ UNCHANGED <<gVars, aVars, nVars, envVars, authCallback>>

\* lines 73-105: the select on the users table settles with a row, with no
\* row or an error, or it rejects; unless the page is gone the user is set,
\* from the row or from the session
ProfileResolves(outcomes) ==
    \E i \in 1..Len(runs), outcome \in outcomes :
        /\ runs[i].fn \in {"profile", "focus"}
        /\ runs[i].pc = "select"
        /\ page' = (IF ~isMounted THEN page
                    ELSE [page EXCEPT !.user = runs[i].uid,
                                      !.profile = Some(IF outcome = "row" THEN "stored"
                                                       ELSE "session"),
                                      !.isLoadingUser = FALSE])
        /\ runs' = [runs EXCEPT ![i].pc = "done"]
        /\ UNCHANGED <<form, storage, sent, now, isMounted>>
        /\ UNCHANGED <<gVars, aVars, nVars, envVars, authCallback>>

\* lines 160-164: the cleanup of the effect
Unmount ==
    /\ isMounted
    /\ isMounted' = FALSE
    /\ UNCHANGED <<page, form, storage, sent, runs, now>>
    /\ UNCHANGED <<gVars, aVars, nVars, envVars, authCallback>>

----------------------------------------------------------------------------
(* Inputs *)

MaxPad == 1          \* whitespace put before and after a string
MaxOver == 1         \* how far lengths and days go past a limit of the code
MaxFragments == 2    \* substrings of interest in one error message

CurrentDates == {FormatISO(2025, 6, 10)}

TimeZones == {-5, 0, 9}

NodeEnvs == {"development", "production"}

\* error messages: every set of at most MaxFragments substrings of interest
Messages == {m \in SUBSET Fragments : Cardinality(m) <= MaxFragments}

FewMessages == {{}, {"quota"}, {"model", "not found"}}

\* lengths around 0, around half the text limit and around the text limit
TextLens ==
    (0..(MinTextLength + MaxOver))
    \cup ((MaxTextLength \div 2 - MaxOver)..(MaxTextLength \div 2 + MaxOver))
    \cup ((MaxTextLength - MaxOver)..(MaxTextLength + MaxOver))

Texts ==
    {Rep(" ", l) \o Rep(c, n) \o Rep("!", k) \o Rep(" ", r) :
        l \in 0..MaxPad, r \in 0..MaxPad, c \in {"a", "K"}, n \in TextLens, k \in TextLens}
    \cup {Rep(c, n) \o Rep("!", k) :
            c \in {"_", "7"}, n \in 0..(MinTextLength + MaxOver), k \in 0..(MinTextLength + MaxOver)}

ValidText == <<"K", "K", " ", "a", "a">>

GenBodies ==
    {GenBody(k, JsUndefined) : k \in {"malformed", "null", "primitive", "array"}}
    \cup {GenBody("object", v) : v \in {JsUndefined, JsNull, JsNumber(0), JsNumber(5)}}
    \cup {GenBody("object", JsString(t)) : t \in Texts}

FewGenBodies == {GenBody("malformed", JsUndefined), GenBody("object", JsString(ValidText))}

\* drafts as the model returns them
Draft(title, description, dueDate, dueTime, priority, category) ==
    [title |-> title, description |-> description, due_date |-> dueDate,
     due_time |-> dueTime, priority |-> priority, category |-> category]

FewDrafts ==
    {Draft(JsString(<<"a", "a">>), JsNull, JsNull, JsNull, JsString(Medium), JsNull),
     Draft(JsString(<<" ", "K", " ">>), JsString(<<"a", " ">>), JsString(FormatISO(2025, 6, 9)),
           JsString(FormatTime(15, 0)), JsString(High), JsString(<<"K">>)),
     Draft(JsString(<<"K", "a">>), JsUndefined, JsString(FormatISO(2025, 6, 11)),
           JsString(FormatTime(25, 0)), JsString(Low), JsString(<<" ">>))}

MaxTasks == 2        \* tasks in one request to analyze-todos

\* the fields of a task the handler's checks and counts read
Task(completed, priority) ==
    TodoItem(completed, JsString(priority), JsUndefined, JsUndefined, JsUndefined, JsUndefined)

Tasks == {Task(c, p) : c \in BOOLEAN, p \in {High, Low}}

RECURSIVE SeqsUpTo(_, _)
SeqsUpTo(S, n) ==
    IF n = 0 THEN {<<>>}
    ELSE LET shorter == SeqsUpTo(S, n - 1)
         IN shorter \cup {Append(q, x) : q \in {r \in shorter : Len(r) = n - 1}, x \in S}

TodosValues ==
    {TodosValue(t, <<>>, 0, <<>>) : t \in {"undefined", "null", "object"}}
    \cup {TodosValue("string", <<>>, 0, <<>>), TodosValue("string", <<"a">>, 0, <<>>),
          TodosValue("number", <<>>, 0, <<>>), TodosValue("number", <<>>, 5, <<>>)}
    \cup {TodosValue("array", <<>>, 0, items) : items \in SeqsUpTo(Tasks, MaxTasks)}

PeriodValues ==
    {JsUndefined, JsNull, JsNumber(7), JsString(<<>>), JsString(Today), JsString(Week),
     JsString(<<"m", "o", "n", "t", "h">>)}

AnalyzeBodies ==
    {AnalyzeBody("malformed", TodosValue("undefined", <<>>, 0, <<>>), JsUndefined, echo) :
        echo \in Messages}
    \cup {AnalyzeBody(k, TodosValue("undefined", <<>>, 0, <<>>), JsUndefined, {}) :
            k \in {"null", "primitive", "array"}}
    \cup {AnalyzeBody("object", t, p, {}) : t \in TodosValues, p \in PeriodValues}

\* what the model returns for an analysis, taken as opaque
AnalysisResults == {"analysis A", "analysis B"}

\* model outputs handed to postprocessResult: each field in turn ranges over
\* every shape of value while the other fields range over two values each
TitleLens == (0..MaxOver) \cup ((TitleKeep - 1)..(MaxTitleLength + MaxOver))

NonStrings == {JsUndefined, JsNull, JsNumber(0), JsNumber(5)}

TitleValues ==
    NonStrings
    \cup {JsString(Rep(" ", l) \o Rep("a", n) \o Rep(" ", k) \o Rep("a", k) \o Rep(" ", r)) :
            l \in 0..MaxPad, r \in 0..MaxPad, n \in TitleLens, k \in 0..1}

TextValues ==
    NonStrings
    \cup {JsString(Rep(" ", l) \o Rep("K", n) \o Rep(" ", r)) :
            l \in 0..MaxPad, r \in 0..MaxPad, n \in 0..(MaxOver + 1)}

DateTriples ==
    {<<2025, 6, d>> : d \in (9 - MaxOver)..(11 + MaxOver)}
    \cup {<<2024, 12, 31>>, <<2025, 5, 31>>, <<2025, 7, 1>>, <<2026, 1, 1>>,
          <<2025, 2, 30>>, <<2025, 13, 1>>, <<2025, 6, 0>>, <<2025, 6, 32>>}

DateValues ==
    NonStrings
    \cup {JsString(<<>>), JsString(<<"t", "o", "m", "o", "r", "r", "o", "w">>)}
    \cup {JsString(FormatISO(x[1], x[2], x[3])) : x \in DateTriples}
    \cup {JsString(FormatSlash(x[1], x[2], x[3])) : x \in DateTriples}
    \cup {JsString(FormatIsoDateTime(x[1], x[2], x[3], hh, 0)) : x \in DateTriples, hh \in {0, 15}}

TimeValues ==
    NonStrings
    \cup {JsString(<<>>), JsString(<<"9", ":", "5">>), JsString(<<"n", "o", "o", "n">>)}
    \cup {JsString(FormatTime(h, m)) : h \in {0, 9, 19, 23, 24, 25, 30}, m \in {0, 5, 59, 60}}

PriorityValues ==
    NonStrings
    \cup {JsString(<<>>), JsString(High), JsString(Medium), JsString(Low),
          JsString(<<"u", "r", "g", "e", "n", "t">>)}

TitleCore == {JsUndefined, JsString(<<" ", "a", " ">>)}
TextCore == {JsNull, JsString(<<"a", " ">>)}
DateCore == {JsNull, JsString(FormatISO(2025, 6, 9))}
TimeCore == {JsNull, JsString(FormatTime(9, 5))}
PriorityCore == {JsUndefined, JsString(High)}

ModelOutputs ==
    {Draft(t, ds, dd, dt, p, c) :
        t \in TitleValues, ds \in TextCore, dd \in DateCore, dt \in TimeCore,
        p \in PriorityCore, c \in TextCore}
    \cup {Draft(t, ds, dd, dt, p, c) :
        t \in TitleCore, ds \in TextValues, dd \in DateCore, dt \in TimeCore,
        p \in PriorityCore, c \in TextCore}
    \cup {Draft(t, ds, dd, dt, p, c) :
        t \in TitleCore, ds \in TextCore, dd \in DateValues, dt \in TimeCore,
        p \in PriorityCore, c \in TextCore}
    \cup {Draft(t, ds, dd, dt, p, c) :
        t \in TitleCore, ds \in TextCore, dd \in DateCore, dt \in TimeValues,
        p \in PriorityCore, c \in TextCore}
    \cup {Draft(t, ds, dd, dt, p, c) :
        t \in TitleCore, ds \in TextCore, dd \in DateCore, dt \in TimeCore,
        p \in PriorityValues, c \in TextCore}
    \cup {Draft(t, ds, dd, dt, p, c) :
        t \in TitleCore, ds \in TextCore, dd \in DateCore, dt \in TimeCore,
        p \in PriorityCore, c \in TextValues}

----------------------------------------------------------------------------
(* Initial states and specifications *)

NoDraft == Draft(JsUndefined, JsUndefined, JsUndefined, JsUndefined, JsUndefined, JsUndefined)

GenInit(bodies) ==
    /\ gPc = "start"
    /\ gBody \in bodies
    /\ gApiKey \in BOOLEAN
    /\ gIdx = 1
    /\ gInFlight = 0
    /\ gCalls = <<>>
    /\ gLastError = NoError
    /\ gObject = <<>>
    /\ gResponse = NoResponse

GenIdle ==
    /\ gPc = "idle"
    /\ gBody = GenBody("malformed", JsUndefined)
    /\ gApiKey = FALSE
    /\ gIdx = 1
    /\ gInFlight = 0
    /\ gCalls = <<>>
    /\ gLastError = NoError
    /\ gObject = <<>>
    /\ gResponse = NoResponse

\* generate-todo before any request has reached it
GenWaiting(keys) ==
    /\ gPc = "idle"
    /\ gBody = GenBody("malformed", JsUndefined)
    /\ gApiKey \in keys
    /\ gIdx = 1
    /\ gInFlight = 0
    /\ gCalls = <<>>
    /\ gLastError = NoError
    /\ gObject = <<>>
    /\ gResponse = NoResponse

AnalyzeInit(bodies) ==
    /\ aPc = "start"
    /\ aBody \in bodies
    /\ aApiKey \in BOOLEAN
    /\ aCalls = 0
    /\ aError = NoError
    /\ aResponse = NoResponse
    /\ aPrompt = NoPrompt

AnalyzeIdle ==
    /\ aPc = "idle"
    /\ aBody = AnalyzeBody("malformed", TodosValue("undefined", <<>>, 0, <<>>), JsUndefined, {})
    /\ aApiKey = FALSE
    /\ aCalls = 0
    /\ aError = NoError
    /\ aResponse = NoResponse
    /\ aPrompt = NoPrompt

NormInit(inputs) ==
    /\ nPc = "start"
    /\ nInput \in inputs
    /\ nOnce = NoDraft
    /\ nTwice = NoDraft

NormIdle ==
    /\ nPc = "idle"
    /\ nInput = NoDraft
    /\ nOnce = NoDraft
    /\ nTwice = NoDraft

ClientInit(users, lists, clocks) ==
    /\ page \in {PageState(u, l) : u \in users, l \in lists}
    /\ form = EmptyForm
    /\ storage = {}
    /\ sent = <<>>
    /\ runs = <<>>
    /\ now \in clocks
    /\ isMounted = TRUE

ClientIdle == ClientInit({None}, {<<>>}, {0})

\* the page of a user whose rows are loaded: the list holds the user's rows of
\* the table, newest first
LoadedInit(userId, tables, clocks) ==
    /\ storage \in tables
    /\ page = PageState(Some(userId), NewestFirst({r \in storage : r.user_id = userId}))
    /\ form = EmptyForm
    /\ sent = <<>>
    /\ runs = <<>>
    /\ now \in clocks
    /\ isMounted = TRUE

\* no request to the auth callback route
CallbackIdle == authCallback = [pc |-> "idle", url |-> NoUrl, response |-> NoRedirect]

\* a request to the auth callback route has arrived
CallbackInit(urls) ==
    \E url \in urls : authCallback = [pc |-> "start", url |-> url, response |-> NoRedirect]

EnvInit(envs, dates, zones) ==
    /\ nodeEnv \in envs
    /\ currentDate \in dates
    /\ tzOffset \in zones

\* One request to generate-todo with a text that passes validation (or a body
\* that does not parse), against every upstream behaviour.
Init == GenInit(FewGenBodies) /\ AnalyzeIdle /\ NormIdle /\ ClientIdle
    /\ EnvInit(NodeEnvs, CurrentDates, {0}) /\ CallbackIdle

Next ==
    \/ GenReceive
    \/ GenIssueCall
    \/ GenCallSucceeds(FewDrafts)
    \/ GenCallFails(Messages)

Spec == Init /\ [][Next]_vars

\* One request to generate-todo with every kind of body and text.
InitValidate == GenInit(GenBodies) /\ AnalyzeIdle /\ NormIdle /\ ClientIdle
    /\ EnvInit(NodeEnvs, CurrentDates, {0}) /\ CallbackIdle

NextValidate ==
    \/ GenReceive
    \/ GenIssueCall
    \/ GenCallSucceeds(FewDrafts)
    \/ GenCallFails(FewMessages)

SpecValidate == InitValidate /\ [][NextValidate]_vars

\* One request to analyze-todos with every kind of body, against every upstream
\* behaviour.
InitAnalyze ==
    GenIdle /\ AnalyzeInit(AnalyzeBodies) /\ NormIdle /\ ClientIdle /\ EnvInit(NodeEnvs, CurrentDates, {0}) /\ CallbackIdle

NextAnalyze ==
    \/ AnalyzeReceive
    \/ AnalyzeCallSucceeds(AnalysisResults)
    \/ AnalyzeCallFails(Messages)

SpecAnalyze == InitAnalyze /\ [][NextAnalyze]_vars

\* One request to each endpoint, served by the same process, with a body of
\* every kind that is refused and one that reaches the model, against upstream
\* errors of every class.
ErrorMessages == {{}, {"quota"}, {"api key"}, {"model"}, {"404"}, {"network"}}

ErrorGenBodies ==
    {GenBody("malformed", JsUndefined), GenBody("null", JsUndefined),
     GenBody("object", JsNumber(5)), GenBody("object", JsString(<<"a">>)),
     GenBody("object", JsString(ValidText))}

ErrorAnalyzeBodies ==
    {AnalyzeBody("malformed", TodosValue("undefined", <<>>, 0, <<>>), JsUndefined, echo) :
        echo \in {{}, {"quota"}}}
    \cup {AnalyzeBody("null", TodosValue("undefined", <<>>, 0, <<>>), JsUndefined, {})}
    \cup {AnalyzeBody("object", t, p, {}) :
            t \in {TodosValue("undefined", <<>>, 0, <<>>), TodosValue("array", <<>>, 0, <<>>)},
            p \in {JsUndefined, JsString(Week)}}

InitErrors ==
    /\ GenInit(ErrorGenBodies)
    /\ AnalyzeInit(ErrorAnalyzeBodies)
    /\ NormIdle
    /\ ClientIdle
    /\ EnvInit(NodeEnvs, CurrentDates, {0}) /\ CallbackIdle

NextErrors ==
    \/ GenReceive
    \/ GenIssueCall
    \/ GenCallSucceeds(FewDrafts)
    \/ GenCallFails(ErrorMessages)
    \/ AnalyzeReceive
    \/ AnalyzeCallSucceeds(AnalysisResults)
    \/ AnalyzeCallFails(ErrorMessages)

SpecErrors == InitErrors /\ [][NextErrors]_vars

\* Clicks on the two analysis buttons of the home page, for every list of up to
\* MaxTodos tasks due around the current week, in every time zone of the browser.
MaxTodos == 2

Users == {None, Some("u1")}

\* Tuesday 2025-06-10 15:00 UTC and Sunday 2025-06-08 02:00 UTC
ClientNows == {60 * (24 * DayNumber(2025, 6, 10) + 15), 60 * (24 * DayNumber(2025, 6, 8) + 2)}

DueValues ==
    {JsNull, JsString(<<"s", "o", "m", "e", "d", "a", "y">>)}
    \cup {JsString(FormatIsoDateTime(2025, 6, d, hh, 0)) : d \in {7, 8, 10, 14, 15}, hh \in {3, 20}}

RECURSIVE TodoListsOf(_)
TodoListsOf(n) ==
    IF n = 0 THEN {<<>>}
    ELSE {Append(l, Todo(n, d)) : l \in TodoListsOf(n - 1), d \in DueValues}

TodoLists == UNION {TodoListsOf(n) : n \in 0..MaxTodos}

AnalyzeOutcomes ==
    {FetchOutcome(TRUE, FALSE, None, None),
     FetchOutcome(FALSE, FALSE, Some("quota"), None),
     FetchOutcome(FALSE, FALSE, None, None),
     FetchOutcome(FALSE, TRUE, None, None),
     FetchOutcome(FALSE, TRUE, None, Some("analysis A"))}

InitAnalyzeClick ==
    /\ GenIdle /\ AnalyzeIdle /\ NormIdle
    /\ ClientInit(Users, TodoLists, ClientNows)
    /\ EnvInit({"production"}, CurrentDates, TimeZones) /\ CallbackIdle

NextAnalyzeClick ==
    \/ \E period \in {"today", "week"} : HandleAnalyzeTodos(period)
    \/ AnalyzeFetchResolves(AnalyzeOutcomes)

SpecAnalyzeClick == InitAnalyzeClick /\ [][NextAnalyzeClick]_vars

\* analyze-todos on lists of tasks that differ in every field the statistics
\* read: done or not, two of the three priorities, no due date, a Monday, a Sunday
\* and a text that is no date, no due time, a morning hour and an hour of no
\* slot, with and without a category; all were created on Tuesday 2025-06-10
StatTasks ==
    {TodoItem(c, JsString(p), d, t, k, JsString(FormatISO(2025, 6, 10))) :
        c \in BOOLEAN, p \in {Medium, Low},
        d \in {JsUndefined, JsString(FormatISO(2025, 6, 9)), JsString(FormatISO(2025, 6, 15)),
               JsString(<<"x">>)},
        t \in {JsUndefined, JsString(FormatTime(10, 0)), JsString(FormatTime(3, 0))},
        k \in {JsUndefined, JsString(<<"K">>)}}

StatBodies ==
    {AnalyzeBody("object", TodosValue("array", <<>>, 0, items), JsString(Today), {}) :
        items \in SeqsUpTo(StatTasks, MaxTasks)}

InitStats ==
    /\ GenIdle /\ AnalyzeInit(StatBodies) /\ NormIdle /\ ClientIdle
    /\ EnvInit({"production"}, CurrentDates, {-5, 9}) /\ CallbackIdle

NextStats ==
    \/ AnalyzeReceive
    \/ AnalyzeCallSucceeds({"analysis A"})
    \/ AnalyzeCallFails({{"quota"}})

SpecStats == InitStats /\ [][NextStats]_vars

\* analyze-todos on lists of tasks, done or not, with no due time or one at
\* an hour on either side of every slot boundary
SlotHours == {0, 8, 9, 11, 12, 17, 18, 20, 21, 23}

SlotTasks ==
    {TodoItem(c, JsString(Medium), JsUndefined, t, JsUndefined, JsString(FormatISO(2025, 6, 10))) :
        c \in BOOLEAN,
        t \in {JsUndefined, JsNull} \cup {JsString(FormatTime(h, 30)) : h \in SlotHours}}

SlotBodies ==
    {AnalyzeBody("object", TodosValue("array", <<>>, 0, items), JsString(Week), {}) :
        items \in SeqsUpTo(SlotTasks, MaxTasks)}

InitSlots ==
    /\ GenIdle /\ AnalyzeInit(SlotBodies) /\ NormIdle /\ ClientIdle
    /\ EnvInit({"production"}, CurrentDates, {9}) /\ CallbackIdle

NextSlots ==
    \/ AnalyzeReceive
    \/ AnalyzeCallSucceeds({"analysis A"})
    \/ AnalyzeCallFails({{"quota"}})

SpecSlots == InitSlots /\ [][NextSlots]_vars

\* The task form of a signed-in user: typing, AI generation served by the
\* generate-todo handler, editing a task and submitting the form.
Sessions == {Session(TRUE, None), Session(FALSE, None), Session(FALSE, Some("u1"))}

Codes == {NoCode, "42501"}

OneRowTables == {{Todo(1, JsNull)}}

\* an analysis request the analyze-todos handler serves meanwhile
DraftAnalyzeBodies ==
    {AnalyzeBody("object", TodosValue("array", <<>>, 0, <<>>), JsString(Week), {})}

InitDraft ==
    /\ GenWaiting(BOOLEAN) /\ AnalyzeInit(DraftAnalyzeBodies) /\ NormIdle
    /\ LoadedInit("u1", OneRowTables, {60 * (24 * DayNumber(2025, 6, 10) + 15)})
    /\ EnvInit({"production"}, CurrentDates, {9}) /\ CallbackIdle

NextDraft ==
    \/ TypeAiInput({ValidText})
    \/ TypeTitle({<<"a">>})
    \/ HandleAIGenerate
    \/ GenReceive
    \/ GenIssueCall
    \/ GenCallSucceeds(FewDrafts)
    \/ GenCallFails(FewMessages)
    \/ AIFetchResolves
    \/ AIFetchRejects
    \/ AnalyzeReceive
    \/ AnalyzeCallSucceeds({"analysis A"})
    \/ AnalyzeCallFails({{"quota"}})
    \/ HandleEditTodo
    \/ OnFormSubmit
    \/ AddSessionResolves(Sessions)
    \/ InsertResolves(Codes)
    \/ UpdateSessionResolves(Sessions)
    \/ UpdateResolves(Codes)
    \/ FetchTodosSessionResolves(Sessions)
    \/ FetchTodosSelectServed(Codes)
    \/ FetchTodosSelectResolves

SpecDraft == InitDraft /\ [][NextDraft]_vars

\* Deleting tasks from a loaded list of two: the user confirms deletions, the
\* timers fire, and the session checks, deletes and reloads settle in any
\* order and with any outcome. Every timer fires and every request settles.
TwoRowTables == {{Todo(1, JsNull), Todo(2, JsNull)}}

TodoIds == {1, 2}

DeleteCodes == {NoCode, "42501", "PGRST301"}

InitDelete ==
    /\ GenIdle /\ AnalyzeIdle /\ NormIdle
    /\ LoadedInit("u1", TwoRowTables, {60 * (24 * DayNumber(2025, 6, 10) + 15)})
    /\ EnvInit({"production"}, CurrentDates, {9}) /\ CallbackIdle

NextDelete ==
    \/ HandleDeleteTodo(TodoIds)
    \/ DeleteDelayElapses
    \/ DeleteSessionResolves(Sessions)
    \/ DeleteResolves(DeleteCodes)
    \/ FetchTodosSessionResolves(Sessions)
    \/ FetchTodosSelectServed(DeleteCodes)
    \/ FetchTodosSelectResolves

SpecDelete ==
    /\ InitDelete
    /\ [][NextDelete]_vars
    /\ WF_vars(DeleteDelayElapses)
    /\ WF_vars(DeleteSessionResolves(Sessions))
    /\ WF_vars(DeleteResolves(DeleteCodes))
    /\ WF_vars(FetchTodosSessionResolves(Sessions))
    /\ WF_vars(FetchTodosSelectServed(DeleteCodes))
    /\ WF_vars(FetchTodosSelectResolves)

\* The page of user u1 while the browser's session is u1's, another user's or
\* gone: every handler that asks the todos table, with every outcome
OtherSessions == Sessions \cup {Session(FALSE, Some("u2"))}

SharedTables == {{Todo(1, JsNull), Row(2, "u2", <<"a">>, JsNull, JsNull, Medium, JsNull, FALSE)}}

InitScope ==
    /\ GenIdle /\ AnalyzeIdle /\ NormIdle
    /\ LoadedInit("u1", SharedTables, {60 * (24 * DayNumber(2025, 6, 10) + 15)})
    /\ EnvInit({"production"}, CurrentDates, {9}) /\ CallbackIdle

NextScope ==
    \/ TypeTitle({<<"a">>})
    \/ HandleEditTodo
    \/ OnFormSubmit
    \/ AddSessionResolves(OtherSessions)
    \/ InsertResolves(Codes)
    \/ UpdateSessionResolves(OtherSessions)
    \/ UpdateResolves(Codes)
    \/ HandleDeleteTodo(TodoIds)
    \/ DeleteDelayElapses
    \/ DeleteSessionResolves(OtherSessions)
    \/ DeleteResolves(Codes)
    \/ HandleToggleComplete(TodoIds)
    \/ ToggleSessionResolves(OtherSessions)
    \/ ToggleResolves(Codes)
    \/ FetchTodosSessionResolves(OtherSessions)
    \/ FetchTodosSelectServed(Codes)
    \/ FetchTodosSelectResolves

SpecScope == InitScope /\ [][NextScope]_vars

\* Overlapping operations of one signed-in user on a loaded list of two, with
\* no failure anywhere: the session is there and the backend accepts every
\* request; the responses arrive in any order
SignedIn == {Session(FALSE, Some("u1"))}

InitSync ==
    /\ GenIdle /\ AnalyzeIdle /\ NormIdle
    /\ LoadedInit("u1", TwoRowTables, {60 * (24 * DayNumber(2025, 6, 10) + 15)})
    /\ EnvInit({"production"}, CurrentDates, {9}) /\ CallbackIdle

NextSync ==
    \/ HandleToggleComplete(TodoIds)
    \/ ToggleSessionResolves(SignedIn)
    \/ ToggleResolves({NoCode})
    \/ HandleDeleteTodo(TodoIds)
    \/ DeleteDelayElapses
    \/ DeleteSessionResolves(SignedIn)
    \/ DeleteResolves({NoCode})
    \/ AuthStateChange({"SIGNED_IN"}, SignedIn)
    \/ ProfileResolves({"row"})
    \/ FetchTodosSessionResolves(SignedIn)
    \/ FetchTodosSelectServed({NoCode})
    \/ FetchTodosSelectResolves

SpecSync == InitSync /\ [][NextSync]_vars

\* Editing the one task of a signed-in user, a task with a description, a
\* due date, a priority and a category of its own: the user starts the edit,
\* types a title, submits; the requests settle with any outcome
EditTables ==
    {{Row(1, "u1", <<"a">>, JsString(<<"d">>), JsString(FormatIsoDateTime(2025, 6, 14, 20, 0)),
          High, JsString(<<"w", "o", "r", "k">>), FALSE)}}

InitEdit ==
    /\ GenIdle /\ AnalyzeIdle /\ NormIdle
    /\ LoadedInit("u1", EditTables, {60 * (24 * DayNumber(2025, 6, 10) + 15)})
    /\ EnvInit({"production"}, CurrentDates, {9}) /\ CallbackIdle

NextEdit ==
    \/ HandleEditTodo
    \/ TypeTitle({<<"a">>, <<"b">>})
    \/ OnFormSubmit
    \/ AddSessionResolves(Sessions)
    \/ InsertResolves(Codes)
    \/ UpdateSessionResolves(Sessions)
    \/ UpdateResolves(Codes)
    \/ FetchTodosSessionResolves(Sessions)
    \/ FetchTodosSelectServed(Codes)
    \/ FetchTodosSelectResolves

SpecEdit == InitEdit /\ [][NextEdit]_vars

\* One request to the auth callback route, on either origin of the site, with
\* or without a code, and with a next parameter of every shape: absent, empty,
\* a path, a relative reference, a reference that starts with two slashes (or
\* backslashes, or a tab between them), an absolute URL
CallbackOrigins == {Origin(Https, <<"o">>), Origin(Http, <<"o">>)}

CallbackCodes == {None, Some(<<>>), Some(<<"c">>)}

CallbackNexts ==
    {None, Some(<<>>), Some(<<"/">>), Some(<<"/", "a">>), Some(<<"a">>),
     Some(<<"/", "/", "e">>), Some(<<"/", "\\", "e">>), Some(<<"/", "\t", "/", "e">>),
     Some(<<"/", "/", "o", "@", "e", "/", "a">>), Some(<<"/", "/">>),
     Some(Https \o <<":", "/", "/", "e">>), Some(Https \o <<":", "/", "a">>),
     Some(<<"j", "s", ":", "a">>)}

InitCallback ==
    /\ GenIdle /\ AnalyzeIdle /\ NormIdle /\ ClientIdle
    /\ nodeEnv = "production" /\ currentDate \in CurrentDates /\ tzOffset = 9
    /\ CallbackInit({CallbackUrl(origin, code, next) :
                        origin \in CallbackOrigins, code \in CallbackCodes,
                        next \in CallbackNexts})

NextCallback ==
    \/ CallbackReceive
    \/ ExchangeResolves(BOOLEAN)

SpecCallback == InitCallback /\ [][NextCallback]_vars

\* The status filter on every list of up to MaxTodos tasks, done or not, with
\* no due date, a due date before or after the clock or one that is no date
FilterStatuses == {"all", "active", "completed", "overdue"}

FilterDues ==
    {JsNull, JsString(<<"s", "o", "m", "e", "d", "a", "y">>),
     JsString(FormatIsoDateTime(2025, 6, 8, 3, 0)), JsString(FormatIsoDateTime(2025, 6, 14, 20, 0))}

RECURSIVE FilterListsOf(_)
FilterListsOf(n) ==
    IF n = 0 THEN {<<>>}
    ELSE {Append(l, [Todo(n, d) EXCEPT !.completed = c]) :
            l \in FilterListsOf(n - 1), d \in FilterDues, c \in BOOLEAN}

InitFilter ==
    /\ GenIdle /\ AnalyzeIdle /\ NormIdle
    /\ ClientInit({Some("u1")}, UNION {FilterListsOf(n) : n \in 0..MaxTodos}, ClientNows)
    /\ EnvInit({"production"}, CurrentDates, {9}) /\ CallbackIdle

NextFilter == SetStatusFilter(FilterStatuses)

SpecFilter == InitFilter /\ [][NextFilter]_vars

\* The home page from its mount: auth events, focus events, the work they
\* start, and the cleanup of the effect at any moment
AuthEvents == {"INITIAL_SESSION", "SIGNED_IN", "SIGNED_OUT"}

ProfileOutcomes == {"row", "no row", "error", "rejects"}

\* lines 35-57: the state of the page at its mount
MountedPage ==
    [PageState(None, <<>>) EXCEPT !.isLoadingUser = TRUE, !.isLoadingTodos = TRUE]

InitAuth ==
    /\ GenIdle /\ AnalyzeIdle /\ NormIdle
    /\ storage \in TwoRowTables
    /\ page = MountedPage
    /\ form = EmptyForm
    /\ sent = <<>>
    /\ runs = <<>>
    /\ now = 60 * (24 * DayNumber(2025, 6, 10) + 15)
    /\ isMounted = TRUE
    /\ EnvInit({"production"}, CurrentDates, {9}) /\ CallbackIdle

NextAuth ==
    \/ AuthStateChange(AuthEvents, Sessions)
    \/ HandleFocus
    \/ FocusGetUserResolves({None, Some("u1")})
    \/ ProfileResolves(ProfileOutcomes)
    \/ FetchTodosSessionResolves(Sessions)
    \/ FetchTodosSelectServed(DeleteCodes)
    \/ FetchTodosSelectResolves
    \/ Unmount

SpecAuth == InitAuth /\ [][NextAuth]_vars

\* postprocessResult on every model output, in every time zone of the server
InitNormalize ==

    GenIdle /\ AnalyzeIdle /\ NormInit(ModelOutputs) /\ ClientIdle /\ EnvInit({"production"}, CurrentDates, TimeZones) /\ CallbackIdle

NextNormalize ==
    \/ Normalize
    \/ Renormalize

SpecNormalize == InitNormalize /\ [][NextNormalize]_vars

----------------------------------------------------------------------------
(* Claims about POST /api/ai/generate-todo *)

GenDone == gPc = "done"

AllModelsFailed ==
    /\ GenDone
    /\ Len(gCalls) = Len(modelNames)
    /\ \A i \in 1..Len(gCalls) : gCalls[i].outcome = "error"

\* the message of the i-th call's error names a missing or unsupported model
ModelNotFoundAt(i) ==
    /\ gCalls[i].outcome = "error"
    /\ MessageOf(gCalls[i].error) \cap {"model", "not found", "404"} # {}
    /\ MessageOf(gCalls[i].error) \cap
           {"quota", "rate limit", "429", "resource exhausted",
            "api key", "api_key", "authentication"} = {}

\* C1: a further model identifier is tried only after the previous attempt
\* failed with a model-not-found/unsupported error; after any other error no
\* further call is made.
C1_FallbackOnlyOnModelNotFound ==
    \A i \in 2..Len(gCalls) : ModelNotFoundAt(i - 1)

\* the position of the first non-whitespace character of s at or after i
RECURSIVE FirstSolid(_, _)
FirstSolid(s, i) ==
    IF i > Len(s) THEN i ELSE IF s[i] # " " THEN i ELSE FirstSolid(s, i + 1)

\* the position of the last non-whitespace character of s at or before i
RECURSIVE LastSolid(_, _)
LastSolid(s, i) ==
    IF i < 1 THEN i ELSE IF s[i] # " " THEN i ELSE LastSolid(s, i - 1)

\* the number of characters of s from its first to its last non-whitespace one
TrimmedLength(s) ==
    IF FirstSolid(s, 1) > Len(s) THEN 0 ELSE LastSolid(s, Len(s)) - FirstSolid(s, 1) + 1

RefusedText(body) ==
    /\ body.kind = "object"
    /\ body.text.t = "string"
    /\ \/ TrimmedLength(body.text.s) < 2
       \/ Len(body.text.s) > 500

\* C2: a text that is empty or whitespace-only, whose trimmed length is below
\* 2, or whose length exceeds 500 is answered with status 400, and no outbound
\* model call is made for that request.
C2_BadTextIs400WithoutCall ==
    RefusedText(gBody) =>
        /\ gCalls = <<>>
        /\ gInFlight = 0
        /\ gPc \in {"start", "done"}
        /\ GenDone => gResponse.status = 400

C2_Witness ==
    /\ GenDone
    /\ gApiKey
    /\ gBody.kind = "object"
    /\ gBody.text.t = "string"
    /\ Len(gBody.text.s) = 501
    /\ TrimmedLength(gBody.text.s) = 501
    /\ gResponse.status = 400
    /\ gCalls = <<>>

\* C4: a body that is not parseable JSON, or whose text field is not a string
\* (no text field, or a JSON body that is not an object, such as null), is
\* answered with status 400 and no model call is made.
C4_NonStringTextIs400 ==
    (GenDone /\ (gBody.kind # "object" \/ gBody.text.t # "string")) =>
        /\ gResponse.status = 400
        /\ gCalls = <<>>

\* C6: when the call with the first model identifier fails with a
\* model-not-found error the second identifier is called, and when that call
\* succeeds the response has status 200, its data is the normalized result of
\* the second call, and the body has no error and no details field.
C6_FallbackSuccessIsClean ==
    (GenDone /\ Len(gCalls) >= 1 /\ ModelNotFoundAt(1)) =>
        /\ Len(gCalls) = 2
        /\ gCalls[1].model = modelNames[1]
        /\ gCalls[2].model = modelNames[2]
        /\ gCalls[2].outcome = "ok" =>
              /\ gResponse.status = 200
              /\ gResponse.data = <<postprocessResult(gCalls[2].object[1], currentDate, tzOffset)>>
              /\ gResponse.error = ""
              /\ gResponse.details = <<>>

C6_Witness ==
    /\ GenDone
    /\ Len(gCalls) = 2
    /\ ModelNotFoundAt(1)
    /\ gCalls[2].outcome = "ok"
    /\ gResponse.status = 200
    /\ nodeEnv = "development"

\* C7: when every model identifier has failed, the status is 429 exactly when
\* the last error is a quota/rate-limit error and 500 otherwise, whatever the
\* errors of the earlier attempts were.
C7_StatusFromLastErrorOnly ==
    AllModelsFailed =>
        LET last == MessageOf(gCalls[Len(gCalls)].error)
            quota == last \cap {"quota", "rate limit", "429", "resource exhausted"} # {}
        IN /\ gResponse.status = (IF quota THEN 429 ELSE 500)
           /\ gResponse.data = <<>>

C7_Witness ==
    /\ AllModelsFailed
    /\ MessageOf(gCalls[1].error) = {"quota"}
    /\ MessageOf(gCalls[2].error) = {"api key"}
    /\ gResponse.status = 500

----------------------------------------------------------------------------
(* Claims about POST /api/ai/analyze-todos *)

AnalyzeDone == aPc = "done"

ValidPeriod(body) ==
    body.kind = "object" /\ body.period.t = "string" /\ body.period.s \in {Today, Week}

\* C3: called with todos equal to an empty array and a valid period, the
\* handler answers with status 400 and makes no model call.
C3_EmptyTodosIs400 ==
    (aApiKey /\ aBody.kind = "object" /\ aBody.todos.t = "array" /\ aBody.todos.items = <<>>
        /\ ValidPeriod(aBody)) =>
        /\ aCalls = 0
        /\ AnalyzeDone => aResponse.status = 400

\* C5: a body that is not parseable as JSON is answered with status 400, never
\* with a 5xx status, and no model call is made.
C5_MalformedBodyIs400 ==
    aBody.kind = "malformed" =>
        /\ aCalls = 0
        /\ AnalyzeDone => aResponse.status = 400

\* C8: for every upstream error, analyze-todos classifies it into the same class
\* and returns the same status as generate-todo does when that error is the
\* last error after fallback exhaustion.
C8_SameClassificationAsGenerate ==
    (AnalyzeDone /\ aCalls = 1 /\ aError # NoError) =>
        /\ ClassifyAnalyze(MessageOf(aError)) = ClassifyExhausted(MessageOf(aError))
        /\ aResponse.status = ExhaustedResponse(aError, nodeEnv).status

----------------------------------------------------------------------------
(* Claims about postprocessResult *)

\* C9: for a fixed current date, normalizing an already normalized draft
\* yields the same draft, in every field.
C9_NormalizeIdempotent ==
    nPc = "twice" =>
        /\ nTwice.title = nOnce.title
        /\ nTwice.description = nOnce.description
        /\ nTwice.due_date = nOnce.due_date
        /\ nTwice.due_time = nOnce.due_time
        /\ nTwice.priority = nOnce.priority
        /\ nTwice.category = nOnce.category

C9_Witness ==
    /\ nPc = "twice"
    /\ nInput.title.t = "string"
    /\ Len(nInput.title.s) > 100
    /\ nOnce.title # nInput.title
    /\ Len(nOnce.title.s) = 100
    /\ nInput.due_date = JsString(FormatISO(2025, 6, 9))
    /\ nOnce.due_date = JsString(currentDate)
    /\ nTwice = nOnce

\* C10: for every input whose due_date does not match the YYYY-MM-DD format
\* the normalized due_date is absent (null); no other date is substituted.
C10_MalformedDateIsDropped ==
    (nPc # "start" /\ ~(nInput.due_date.t = "string" /\ MatchesDateRegex(nInput.due_date.s))) =>
        nOnce.due_date = JsNull

\* s is a string with at least one character and no whitespace at either end
SolidEnds(s) == Len(s) >= 1 /\ s[1] # " " /\ s[Len(s)] # " "

\* s reads dddd-dd-dd, d a decimal digit
ReadsAsYmd(s) ==
    /\ Len(s) = 10
    /\ \A i \in 1..10 : IF i \in {5, 8} THEN s[i] = "-" ELSE s[i] \in Digits

\* s reads dd:dd with the first number at most 23 and the second at most 59
ReadsAsTime(s) ==
    /\ Len(s) = 5
    /\ s[3] = ":"
    /\ \A i \in {1, 2, 4, 5} : s[i] \in Digits
    /\ NumVal(SubSeq(s, 1, 2)) <= 23
    /\ NumVal(SubSeq(s, 4, 5)) <= 59

NullOrSolidText(v) == v = JsNull \/ (v.t = "string" /\ SolidEnds(v.s))

\* C11: whatever the presence and type of each field of the model output,
\* postprocessResult returns a draft whose title is a non-empty trimmed string
\* of at most 100 characters (the placeholder when empty or absent, cut with an
\* ellipsis when longer than 100), whose priority is high, medium or low
\* (medium when invalid), whose description and category are null or non-empty
\* trimmed strings, whose due_date is null or YYYY-MM-DD and whose due_time is
\* null or HH:mm with hours 00-23 and minutes 00-59.
C11_OutputSatisfiesDraftConstraints ==
    nPc # "start" =>
        /\ nOnce.title.t = "string"
        /\ SolidEnds(nOnce.title.s)
        /\ Len(nOnce.title.s) <= 100
        /\ (nInput.title.t # "string" \/ TrimmedLength(nInput.title.s) = 0)
              => nOnce.title.s = <<"K", " ", "K">>
        /\ (nInput.title.t = "string" /\ TrimmedLength(nInput.title.s) > 100)
              => /\ Len(nOnce.title.s) = 100
                 /\ SubSeq(nOnce.title.s, 98, 100) = <<".", ".", ".">>
                 /\ \A i \in 1..97 :
                       nOnce.title.s[i] = nInput.title.s[FirstSolid(nInput.title.s, 1) + i - 1]
        /\ nOnce.priority.t = "string"
        /\ nOnce.priority.s \in {High, Medium, Low}
        /\ ~(nInput.priority.t = "string" /\ nInput.priority.s \in {High, Medium, Low})
              => nOnce.priority.s = Medium
        /\ NullOrSolidText(nOnce.description)
        /\ NullOrSolidText(nOnce.category)
        /\ nOnce.due_date = JsNull \/ (nOnce.due_date.t = "string" /\ ReadsAsYmd(nOnce.due_date.s))
        /\ nOnce.due_time = JsNull \/ (nOnce.due_time.t = "string" /\ ReadsAsTime(nOnce.due_time.s))

C11_Witness ==
    /\ nPc = "once"
    /\ nInput.title = JsUndefined
    /\ nOnce.title.s = <<"K", " ", "K">>
    /\ nInput.priority = JsString(<<"u", "r", "g", "e", "n", "t">>)
    /\ nOnce.priority = JsString(Medium)
    /\ nInput.due_date = JsString(FormatISO(2025, 6, 9))
    /\ nInput.category = JsNull

\* the days of month m of year y
DaysInMonth(y, m) ==
    IF m = 2
    THEN (IF (y % 4 = 0 /\ y % 100 # 0) \/ y % 400 = 0 THEN 29 ELSE 28)
    ELSE IF m \in {4, 6, 9, 11} THEN 30 ELSE 31

YearOf(s) == NumVal(SubSeq(s, 1, 4))
MonthOf(s) == NumVal(SubSeq(s, 6, 7))
DayOf(s) == NumVal(SubSeq(s, 9, 10))

\* s is YYYY-MM-DD and names a day of the calendar
CalendarDate(s) ==
    /\ ReadsAsYmd(s)
    /\ MonthOf(s) \in 1..12
    /\ DayOf(s) \in 1..DaysInMonth(YearOf(s), MonthOf(s))

\* the calendar day a is strictly before the calendar day b
DayBefore(a, b) ==
    \/ YearOf(a) < YearOf(b)
    \/ YearOf(a) = YearOf(b) /\ MonthOf(a) < MonthOf(b)
    \/ YearOf(a) = YearOf(b) /\ MonthOf(a) = MonthOf(b) /\ DayOf(a) < DayOf(b)

\* C12: a due_date in YYYY-MM-DD form that is a calendar date strictly before
\* the current date is rewritten to the current date; one equal to or after the
\* current date is returned unchanged.
C12_PastDateBecomesToday ==
    (nPc # "start" /\ nInput.due_date.t = "string" /\ CalendarDate(nInput.due_date.s)) =>
        nOnce.due_date = (IF DayBefore(nInput.due_date.s, currentDate)
                          THEN JsString(currentDate)
                          ELSE nInput.due_date)

C12_Witness ==
    /\ nPc = "once"
    /\ tzOffset = -5
    /\ currentDate = FormatISO(2025, 6, 10)
    /\ nInput.due_date = JsString(FormatISO(2025, 6, 9))
    /\ nOnce.due_date = JsString(FormatISO(2025, 6, 10))
    /\ nInput.due_time = JsString(FormatTime(9, 5))

\* C13: due_time is returned unchanged when it is a two-digit hour 00-23, a
\* colon and a two-digit minute 00-59, and is null for every other value.
C13_TimeKeptOrDropped ==
    nPc # "start" =>
        nOnce.due_time = (IF nInput.due_time.t = "string" /\ ReadsAsTime(nInput.due_time.s)
                          THEN nInput.due_time
                          ELSE JsNull)

C13_Witness ==
    /\ nPc = "once"
    /\ nInput.due_time = JsString(FormatTime(25, 0))
    /\ nOnce.due_time = JsNull

PassesLengthChecks(body) ==
    /\ body.kind = "object"
    /\ body.text.t = "string"
    /\ TrimmedLength(body.text.s) >= 2
    /\ Len(body.text.s) <= 500

\* the characters of s that are neither alphanumeric nor Korean-script
NotAlnumNorKorean(s) ==
    Cardinality({i \in 1..Len(s) : s[i] \notin (Letters \cup Digits \cup {"K"})})

\* the characters of s that are neither alphanumeric, underscore, whitespace
\* nor Korean-script
Symbols(s) ==
    Cardinality({i \in 1..Len(s) : s[i] \notin (Letters \cup Digits \cup {"_", " ", "K"})})

\* the request was refused with 400 before any model call
RefusedAsNoise(countOfText) ==
    IF 2 * countOfText > Len(gBody.text.s)
    THEN /\ gCalls = <<>>
         /\ gInFlight = 0
         /\ gPc \in {"start", "done"}
         /\ GenDone => gResponse.status = 400
    ELSE GenDone => /\ gResponse.status # 400
                    /\ gApiKey => gCalls # <<>>

InvalidAnalyzeInput(body) ==
    \/ body.kind # "object"
    \/ body.todos.t # "array"
    \/ body.period.t # "string"
    \/ body.period.s \notin {Today, Week}

\* C15: a parseable body whose todos is missing or is not an array, or whose
\* period is missing or is not "today" or "week", is answered with status 400
\* and no model call is made.
C15_InvalidInputIs400 ==
    (aBody.kind # "malformed" /\ InvalidAnalyzeInput(aBody)) =>
        /\ aCalls = 0
        /\ AnalyzeDone => aResponse.status = 400

\* the same for every parseable body other than the JSON value null
C15_ExceptNullBody ==
    (aBody.kind \notin {"malformed", "null"} /\ InvalidAnalyzeInput(aBody)) =>
        /\ aCalls = 0
        /\ AnalyzeDone => aResponse.status = 400

----------------------------------------------------------------------------
(* Claims about both endpoints *)

\* an error response: status 400, 429 or 500, an error string, no data, and
\* details only in development mode
UniformError(r) ==
    /\ r.status \in {400, 429, 500}
    /\ r.error \in STRING
    /\ r.error # ""
    /\ r.data = <<>>
    /\ r.details # <<>> => nodeEnv = "development"

\* C16: every non-200 response of either AI endpoint has a status among 400,
\* 429 and 500 and a body with an error string and no data; its details field
\* is populated only when the server runs in development mode.
C16_ErrorResponsesAreUniform ==
    /\ (GenDone /\ gResponse.status # 200) => UniformError(gResponse)
    /\ (AnalyzeDone /\ aResponse.status # 200) => UniformError(aResponse)

C16_Witness ==
    /\ nodeEnv = "production"
    /\ GenDone
    /\ Len(gCalls) = 2
    /\ gLastError = <<{"404"}>>
    /\ gResponse.status = 500
    /\ gResponse.details = <<>>
    /\ AnalyzeDone
    /\ aCalls = 1
    /\ aError = <<{}>>
    /\ aResponse.status = 500
    /\ aResponse.details = <<>>

----------------------------------------------------------------------------
(* Claims about the home page *)

\* the requests invocation i has issued
SentBy(i) == {j \in 1..Len(sent) : sent[j].call = i}

\* C17: when the period filter of handleAnalyzeTodos leaves no task, the
\* invocation sends no request to /api/ai/analyze-todos and returns with an
\* error message set and isAnalyzing false.
C17_EmptyPeriodSendsNothing ==
    \A i \in 1..Len(runs) :
        (runs[i].fn = "analyze" /\ runs[i].filtered = Some(<<>>)) =>
            /\ runs[i].pc = "done"
            /\ SentBy(i) = {}
            /\ i = Len(runs) => (page.analysisError # None /\ ~page.isAnalyzing)

C17_Witness ==
    /\ Len(runs) = 2
    /\ runs[1].period = "week"
    /\ Len(sent) = 1
    /\ runs[2].period = "today"
    /\ runs[2].filtered = Some(<<>>)
    /\ page.analysisError = Some("nothing today")
    /\ ~page.isAnalyzing
    /\ Len(page.todos) = 2

----------------------------------------------------------------------------
(* C18: a draft reaches the table only through a submit of the form *)

\* the request a step adds to the log of requests, if it adds one
NewRequests == IF Len(sent') > Len(sent) THEN {sent'[Len(sent')]} ELSE {}

\* an invocation of fn moves from pc to the position after it in this step
Advances(fn, from, to) ==
    \E i \in 1..Len(runs) :
        runs[i].fn = fn /\ runs[i].pc = from /\ runs'[i].pc = to

\* C18: a step of either AI handler leaves the table alone and asks nothing
\* of the todos table; the step in which the draft arrives in the form changes
\* neither the page, the table nor the requests; every insert or update
\* request is issued by an invocation a submit of the form started, and the
\* table changes only when such an invocation's insert or update settles
C18_DraftSavedOnlyOnSubmit ==
    [][/\ (gVars' # gVars \/ aVars' # aVars) =>
            /\ storage' = storage
            /\ \A r \in NewRequests : r.to # "todos"
       /\ Advances("generate", "fetch", "done") =>
            /\ page' = page /\ storage' = storage /\ sent' = sent
       /\ \A r \in NewRequests :
            (r.to = "todos" /\ r.op \in {"insert", "update"}) =>
                /\ runs[r.call].fn \in {"add", "update"}
                /\ runs[r.call].data # None
                /\ runs[r.call].pc = "session"
       /\ (storage' # storage) =>
            \/ Advances("add", "insert", "fetchSession")
            \/ Advances("update", "update", "fetchSession")]_vars

\* a draft arrived in the form, the user submitted the form, and the row is in
\* the table with the draft's title and date
C18_Witness ==
    /\ Len(runs) = 2
    /\ runs[1].fn = "generate" /\ runs[1].pc = "done"
    /\ runs[2].fn = "add"
    /\ gResponse.status = 200
    /\ \E r \in storage :
          /\ r.id = 2
          /\ r.title = <<"K">>
          /\ r.due_date.t = "string"
----------------------------------------------------------------------------
(* C19: the rates of the analysis prompt *)

\* the rates the prompt reports, whatever their kind
ReportedRates(st) ==
    {st.overall, st.onTime}
    \cup {st.priorities[p] : p \in DOMAIN st.priorities}
    \cup {st.slots[k] : k \in DOMAIN st.slots}
    \cup {st.days[d] : d \in DOMAIN st.days}
    \cup {st.categories[c] : c \in DOMAIN st.categories}
    \cup {e[1].rate : e \in {st.productiveSlot.entry, st.productiveDay.entry} \ {None}}

\* every division the statistics evaluated, as (numerator, denominator)
Divisions(st) ==
    UNION {r.divided : r \in ReportedRates(st)}
    \cup st.productiveSlot.compared \cup st.productiveDay.compared

\* C19: in the statistics of every accepted task list, the empty one included,
\* every reported rate whose denominator is 0 reads "0", no rate reads NaN,
\* and no division evaluated has the denominator 0; the overall rate, the
\* three priority rates, the on-time rate and the four slot rates are always
\* reported, weekdays and categories only when they count a task
C19_ZeroDenominatorIsZero ==
    (aPrompt # NoPrompt) =>
        LET st == aPrompt[1]
        IN /\ \A r \in ReportedRates(st) :
                /\ (r.total = 0) => (r.text = <<"0">>)
                /\ r.text # NaNText
           /\ \A q \in Divisions(st) : q[2] # 0
           /\ DOMAIN st.priorities = {High, Medium, Low}
           /\ DOMAIN st.slots = 1..4
           /\ \A d \in DOMAIN st.days : st.days[d].total > 0
           /\ \A c \in DOMAIN st.categories : st.categories[c].total > 0

\* two tasks, one of them done: half overall, no urgent task ("0"), one
\* weekday reported, and a slot without tasks ("0")
C19_Witness ==
    /\ aPrompt # NoPrompt
    /\ Len(aBody.todos.items) = 2
    /\ aPrompt[1].overall.text = <<"5", "0", ".", "0">>
    /\ aPrompt[1].priorities[High] = Rate(0, 0, <<"0">>, {})
    /\ aPrompt[1].slots[4].text = <<"0">>
    /\ Cardinality(DOMAIN aPrompt[1].days) = 1
    /\ aPrompt[1].productiveDay.entry # None

\* the empty list is analysed: every rate reported reads "0" and nothing was
\* divided
C19_EmptyList ==
    /\ aPrompt # NoPrompt
    /\ aBody.todos.items = <<>>
    /\ aPrompt[1].overall = Rate(0, 0, <<"0">>, {})
    /\ Divisions(aPrompt[1]) = {}
----------------------------------------------------------------------------
(* C20: the pending mark of handleDeleteTodo *)

\* the invocations of handleDeleteTodo that went past the check of user
DeleteRuns == {i \in 1..Len(runs) : runs[i].fn = "delete" /\ runs[i].log # <<>>}

\* invocation i fails in this step: at its session check or at its delete
FailsNow(i) ==
    /\ runs[i].fn = "delete"
    /\ runs[i].pc \in {"session", "delete"}
    /\ runs'[i].pc = "done"

\* the list shows the task with this id
Listed(id) == \E k \in 1..Len(page.todos) : page.todos[k].id = id

\* C20: an invocation that starts marks its id and issues nothing in that
\* step; the delete request of an invocation is issued after its mark and
\* after its delay, in that order; the step in which its session check or its
\* delete fails removes the mark and leaves the list and the table as they
\* were; a task no invocation has deleted is still in the list; and an id that
\* is pending is eventually not pending, whatever the outcome
C20_PendingMarkProtocol ==
    /\ [][/\ (Len(runs') > Len(runs) /\ runs'[Len(runs')].fn = "delete"
              /\ runs'[Len(runs')].pc # "done") =>
                /\ runs'[Len(runs')].id \in page'.deletingTodoIds
                /\ runs'[Len(runs')].log = <<"marked">>
                /\ sent' = sent
         /\ \A r \in NewRequests :
                (r.op = "delete") => (runs[r.call].log = <<"marked", "delay elapsed">>)
         /\ \A i \in 1..Len(runs) :
                FailsNow(i) =>
                    /\ runs[i].id \notin page'.deletingTodoIds
                    /\ page'.todos = page.todos
                    /\ storage' = storage]_vars
    /\ [](\A id \in TodoIds :
            (\A i \in DeleteRuns :
                runs[i].id = id => \A k \in 1..Len(runs[i].log) : runs[i].log[k] # "deleted")
                => Listed(id))
    /\ \A id \in TodoIds :
            (id \in page.deletingTodoIds) ~> (id \notin page.deletingTodoIds)

\* the delete of a task was refused after the mark and the delay: the task is
\* in the list and in the table, and its id is not pending
C20_Witness ==
    \E i \in DeleteRuns :
        /\ runs[i].pc = "done"
        /\ runs[i].log = <<"marked", "delay elapsed", "delete issued", "delete failed">>
        /\ runs[i].id \notin page.deletingTodoIds
        /\ Listed(runs[i].id)
        /\ \E r \in storage : r.id = runs[i].id
        /\ page.errorMessage # None
----------------------------------------------------------------------------
(* C21: the page's state after the cleanup of the auth effect *)

\* C21: once the effect's cleanup has run, no step of an auth callback, of a
\* focus handler or of the work they started changes the page's state
C21_NoMutationAfterUnmount ==
    [][(~isMounted) => (page' = page)]_vars

\* a step of the fetchTodos an auth callback started
FetchTodosStep ==
    \E i \in 1..Len(runs) :
        runs[i].fn = "fetchTodos" /\ runs'[i].pc # runs[i].pc

\* once the cleanup has run, the callbacks, the focus handler and
\* fetchUserProfile leave the page's state alone: only fetchTodos changes it
C21_ExceptFetchTodos ==
    [][(~isMounted /\ ~FetchTodosStep) => (page' = page)]_vars
----------------------------------------------------------------------------
(* C22: the model calls of one request to generate-todo *)

\* the calls of the request that have not settled
PendingCalls == {k \in 1..Len(gCalls) : gCalls[k].outcome = "pending"}

\* C22: at most one call is in flight; the k-th call asks the k-th configured
\* model, so the order is the configured one and no model is asked twice;
\* every call but the last one has failed, so none follows a success; and a
\* call that has succeeded ends the handler
C22_CallsAreSequential ==
    /\ gInFlight <= 1
    /\ gInFlight = Cardinality(PendingCalls)
    /\ Len(gCalls) <= Len(modelNames)
    /\ \A k \in 1..Len(gCalls) : gCalls[k].model = modelNames[k]
    /\ \A k \in 1..(Len(gCalls) - 1) : gCalls[k].outcome = "error"
    /\ (\E k \in 1..Len(gCalls) : gCalls[k].outcome = "ok") => gPc = "done"

\* the first model failed and the second was asked after that and answered
C22_Witness ==
    /\ Len(gCalls) = 2
    /\ gCalls[1].outcome = "error"
    /\ gCalls[2].outcome = "ok"
    /\ gInFlight = 0
----------------------------------------------------------------------------
(* C23: requests to the todos table are scoped to the session user *)

\* C23: a request to the todos table is issued only in the step in which a
\* getSession of the invocation has returned a session, and it carries that
\* session's user id: as user_id of the row for an insert, as the user_id
\* filter for select, update, toggle and delete; a getSession that returns
\* no session is followed by no request
C23_RequestsScopedToSession ==
    [][\A r \in NewRequests :
          (r.to = "todos") =>
              /\ r.op \in {"insert", "update", "toggle", "delete", "select"}
              /\ runs[r.call].pc \in {"session", "fetchSession"}
              /\ runs'[r.call].uid # None
              /\ r.body.user_id = runs'[r.call].uid[1]]_vars

\* the page holds user u1, the session is u2's, and an insert was issued for
\* u2 and stored
C23_Witness ==
    /\ page.user = Some("u1")
    /\ \E k \in 1..Len(sent) :
          /\ sent[k].op = "insert"
          /\ sent[k].body.user_id = "u2"
    /\ \E r \in storage : r.id = 3 /\ r.user_id = "u2"
----------------------------------------------------------------------------
(* C24: the status filter *)

\* the tasks of the list that the page shows
Shown(todo) == \E k \in 1..Len(filteredAndSortedTodos) : filteredAndSortedTodos[k] = todo

\* C24: under "active" the page shows the tasks that are not completed and
\* whose due date is not in the past, under "completed" the completed ones,
\* under "overdue" those not completed whose due date is in the past
C24_StatusFilterSelects ==
    \A k \in 1..Len(page.todos) :
        LET todo == page.todos[k]
        IN /\ (page.statusFilter = "active") =>
                (Shown(todo) <=> (~todo.completed /\ ~DueBefore(todo, now, tzOffset)))
           /\ (page.statusFilter = "completed") => (Shown(todo) <=> todo.completed)
           /\ (page.statusFilter = "overdue") =>
                (Shown(todo) <=> (~todo.completed /\ DueBefore(todo, now, tzOffset)))

\* what the filter does select: "active" is every task that is not completed,
\* overdue or not, so every overdue task is shown under both
C24_ActiveIsNotCompleted ==
    \A k \in 1..Len(page.todos) :
        LET todo == page.todos[k]
        IN /\ (page.statusFilter = "active") => (Shown(todo) <=> ~todo.completed)
           /\ (page.statusFilter = "completed") => (Shown(todo) <=> todo.completed)
           /\ (page.statusFilter = "overdue") =>
                (Shown(todo) <=> (~todo.completed /\ DueBefore(todo, now, tzOffset)))
----------------------------------------------------------------------------
(* C25: the time slots of the analysis statistics *)

\* the four bands: from the first hour up to, not including, the second
Bands == <<<<9, 12>>, <<12, 18>>, <<18, 21>>, <<21, 24>>>>

\* the tasks of the request with a due time whose hour lies in band k
InBand(k) ==
    LET items == aBody.todos.items
    IN {i \in 1..Len(items) :
          /\ IsString(items[i].due_time)
          /\ LET h == NumVal(SubSeq(items[i].due_time.s, 1, 2))
             IN Bands[k][1] <= h /\ h < Bands[k][2]}

----------------------------------------------------------------------------
(* C26: the pending mark while a deletion is in flight *)

\* the invocations of handleDeleteTodo that are past the check of user and
\* have not returned
DeletesInFlight == {i \in DeleteRuns : runs[i].pc # "done"}

\* C26: the id of every invocation of handleDeleteTodo that is in flight is
\* in deletingTodoIds, overlapping invocations for one id included
C26_InFlightIsMarked ==
    \A i \in DeletesInFlight : runs[i].id \in page.deletingTodoIds

\* what holds: the id of an invocation in flight is marked when no other
\* invocation was started for that id
C26_MarkedWhenAlone ==
    \A i \in DeletesInFlight :
        (\A j \in DeleteRuns : runs[j].id = runs[i].id => j = i)
            => runs[i].id \in page.deletingTodoIds
----------------------------------------------------------------------------
(* C27: the list of the page and the rows of the backend *)

\* every operation that was started has returned
AllSettled == runs # <<>> /\ \A i \in 1..Len(runs) : runs[i].pc = "done"

\* the rows of the signed-in user as the backend holds them
BackendList == NewestFirst({r \in storage : Some(r.user_id) = page.user})

\* C27: once all operations in flight have settled without error, the list
\* of the page is the backend's list of the user's rows, whatever the order
\* in which the responses of the overlapping operations arrived
C27_ListMatchesBackend ==
    (AllSettled /\ page.errorMessage = None) => (page.todos = BackendList)

\* what holds: the list matches once a single operation has settled
C27_MatchesAfterOne ==
    (AllSettled /\ page.errorMessage = None /\ Len(runs) = 1) => (page.todos = BackendList)
----------------------------------------------------------------------------
(* C28: the form when an edit starts *)

\* the form holds the title, description, due date, priority and category of
\* the task
FormShows(f, todo) ==
    /\ f.title = todo.title
    /\ f.description = (IF Truthy(todo.description) THEN todo.description.s ELSE <<>>)
    /\ f.date = (IF Truthy(todo.due_date) THEN Some(NewDate(todo.due_date.s, tzOffset))
                 ELSE None)
    /\ f.priority = todo.priority
    /\ f.category = (IF Truthy(todo.category) THEN todo.category.s ELSE NoCategory)

\* C28: the step that starts the edit of a task leaves the form holding that
\* task's title, description, due date, priority and category
C28_EditFillsForm ==
    [][(page'.editingTodo # page.editingTodo /\ page'.editingTodo # None)
            => FormShows(form', page'.editingTodo[1])]_vars

\* what happens: the edit of the task was started, the title typed again and
\* the form submitted, and the row has lost its description, its due date, its
\* priority and its category
C28_OtherFieldsLost ==
    \E r \in storage :
        /\ r.id = 1 /\ r.title = <<"a">>
        /\ r.description = JsNull /\ r.due_date = JsNull
        /\ r.priority = Medium /\ r.category = JsNull
----------------------------------------------------------------------------
(* C29: the form after a successful AI generation *)

\* invocation i of handleAIGenerate receives a draft in this step
DraftArrives(i) ==
    /\ runs[i].fn = "generate"
    /\ runs[i].pc = "fetch"
    /\ runs'[i].pc = "done"
    /\ form'.aiError = None

\* the value a text field of the form has for a field of the draft
ShownText(value, empty) == IF Truthy(value) THEN value.s ELSE empty

\* C29: the step in which a draft arrives leaves every field of the form
\* holding the draft's value; the description is empty when the draft has
\* none and the due date is empty when the draft has none, whatever the form
\* held before
C29_FormReflectsDraft ==
    [][\A i \in 1..Len(runs) :
          DraftArrives(i) =>
              LET data == gResponse.data[1]
              IN /\ form'.title = ShownText(data.title, <<>>)
                 /\ form'.description = ShownText(data.description, <<>>)
                 /\ form'.date = (IF Truthy(data.due_date)
                                  THEN Some(DraftDate(data, tzOffset)) ELSE None)
                 /\ form'.priority = ShownText(data.priority, Medium)
                 /\ form'.category = ShownText(data.category, NoCategory)]_vars

\* what holds: a field the draft has is written into the form, a description
\* or due date the draft lacks leaves the form's as it was, and a category
\* the draft lacks is reset
C29_PresentFieldsWritten ==
    [][\A i \in 1..Len(runs) :
          DraftArrives(i) =>
              LET data == gResponse.data[1]
              IN /\ form'.title = ShownText(data.title, form.title)
                 /\ form'.description = ShownText(data.description, form.description)
                 /\ form'.date = (IF Truthy(data.due_date)
                                  THEN Some(DraftDate(data, tzOffset)) ELSE form.date)
                 /\ form'.priority = ShownText(data.priority, form.priority)
                 /\ form'.category = ShownText(data.category, NoCategory)]_vars
----------------------------------------------------------------------------
(* C30: the target of the auth callback's redirect *)

\* C30: the route answers every request with a redirect to a URL on the
\* origin of the request: to the next target when the code was exchanged, to
\* the login page with the error marker otherwise
C30_RedirectStaysOnOrigin ==
    (authCallback.pc = "done") =>
        /\ authCallback.response.status = 307
        /\ authCallback.response.origin = authCallback.url.origin

\* the next parameter is absent or empty, or a reference with no scheme that
\* does not start with two slashes
LocalNext ==
    LET s == WithoutTabs(NextOf(authCallback.url))
    IN /\ SchemeEnd(s) = 0
       /\ ~(Len(s) >= 2 /\ Slashy(s[1]) /\ Slashy(s[2]))

\* what holds: the redirect to the login page is on the request's origin, and
\* so is the redirect to a next of that kind
C30_LocalNextStaysOnOrigin ==
    (authCallback.pc = "done" /\ (authCallback.response.login \/ LocalNext)) =>
        /\ authCallback.response.status = 307
        /\ authCallback.response.origin = authCallback.url.origin
====
